---------------------------- MODULE Spec2Model ----------------------------
(***************************************************************************)
(* A model of snowpark-db-api: the transfer engine (core.DataTransfer),   *)
(* the warehouse session factory (SnowflakeConnection.from_config) and    *)
(* the three API tiers of api.py.  Text is modelled by TLA+ strings and   *)
(* every text function is computed character by character, as the Python  *)
(* code computes it.  External collaborators (the warehouse, the source   *)
(* database, the file system) are inputs of the actions.                  *)
(***************************************************************************)
EXTENDS Integers, Sequences, FiniteSets, TLC

(***************************************************************************)
(* Bounds of the model.                                                    *)
(***************************************************************************)
MaxLimit == 2       \* row limits handed to the facade are 1..MaxLimit
MaxSessions == 2    \* warehouse sessions one engine run may create
MaxClock == 2       \* transfer_table calls one engine run may make

None == "<None>"    \* Python's None (no string of the model equals it)

(***************************************************************************)
(* Text: Python str operations on TLA+ strings.                            *)
(***************************************************************************)
Digits == "0123456789"

CharAt(s, i) == SubSeq(s, i, i)

\* str.upper() on one character: the ASCII letters; others are unchanged
UpperOf ==
    [a |-> "A", b |-> "B", c |-> "C", d |-> "D", e |-> "E", f |-> "F",
     g |-> "G", h |-> "H", i |-> "I", j |-> "J", k |-> "K", l |-> "L",
     m |-> "M", n |-> "N", o |-> "O", p |-> "P", q |-> "Q", r |-> "R",
     s |-> "S", t |-> "T", u |-> "U", v |-> "V", w |-> "W", x |-> "X",
     y |-> "Y", z |-> "Z"]

UpperChar(c) == IF c \in DOMAIN UpperOf THEN UpperOf[c] ELSE c

RECURSIVE StrUpper(_)
StrUpper(s) ==
    IF Len(s) = 0 THEN ""
    ELSE UpperChar(CharAt(s, 1)) \o StrUpper(SubSeq(s, 2, Len(s)))

DigitChars == {"0", "1", "2", "3", "4", "5", "6", "7", "8", "9"}

\* the value of the decimal digit c
DigitValue(c) == CHOOSE d \in 0..9 : CharAt(Digits, d + 1) = c

IsSpace(c) == c \in {" ", "\t", "\n"}

\* \w of the re module, on ASCII text
IsWordChar(c) ==
    \/ c \in DOMAIN UpperOf
    \/ c \in {UpperOf[k] : k \in DOMAIN UpperOf}
    \/ c \in DigitChars
    \/ c = "_"

RECURSIVE LStrip(_)
LStrip(s) ==
    IF Len(s) > 0 /\ IsSpace(CharAt(s, 1))
    THEN LStrip(SubSeq(s, 2, Len(s)))
    ELSE s

RECURSIVE RStrip(_)
RStrip(s) ==
    IF Len(s) > 0 /\ IsSpace(CharAt(s, Len(s)))
    THEN RStrip(SubSeq(s, 1, Len(s) - 1))
    ELSE s

StrStrip(s) == RStrip(LStrip(s))

StartsWith(s, p) == Len(s) >= Len(p) /\ SubSeq(s, 1, Len(p)) = p

\* str.find: the least 1-based index at which sub occurs in s, 0 when none
StrFind(s, sub) ==
    LET hits == {i \in 1..(Len(s) - Len(sub) + 1) :
                    SubSeq(s, i, i + Len(sub) - 1) = sub}
    IN  IF hits = {} THEN 0
        ELSE CHOOSE i \in hits : \A j \in hits : i <= j

StrContains(s, sub) == StrFind(s, sub) > 0

\* str.replace(old, new, 1)
ReplaceFirst(s, old, new) ==
    LET i == StrFind(s, old)
    IN  IF i = 0 THEN s
        ELSE SubSeq(s, 1, i - 1) \o new \o SubSeq(s, i + Len(old), Len(s))

\* s.split('.')[-1]
AfterLastDot(s) ==
    LET dots == {i \in 1..Len(s) : CharAt(s, i) = "."}
    IN  IF dots = {} THEN s
        ELSE LET d == CHOOSE i \in dots : \A j \in dots : j <= i
             IN  SubSeq(s, d + 1, Len(s))

\* f"{n}" for a natural number n
RECURSIVE IntToStr(_)
IntToStr(n) ==
    IF n < 10 THEN CharAt(Digits, n + 1)
    ELSE IntToStr(n \div 10) \o CharAt(Digits, (n % 10) + 1)

\* the least index >= i of s holding no whitespace (Len(s)+1 at the end)
RECURSIVE SkipSpaces(_, _)
SkipSpaces(s, i) ==
    IF i <= Len(s) /\ IsSpace(CharAt(s, i)) THEN SkipSpaces(s, i + 1) ELSE i

\* the least index >= i of s holding no word character
RECURSIVE SkipWord(_, _)
SkipWord(s, i) ==
    IF i <= Len(s) /\ IsWordChar(CharAt(s, i)) THEN SkipWord(s, i + 1) ELSE i

(***************************************************************************)
(* re.search(r'\)\s+AS\s+(\w+)$', s, re.IGNORECASE): AliasMatchAt(s, i)    *)
(* is the start of group 1 when the pattern matches at index i, else 0.    *)
(* \s+ and \w+ are greedy and no shorter run can match: the character     *)
(* after a maximal run of spaces is no space, and '$' needs the word run   *)
(* to reach the end.  After strip() the text has no trailing newline, so   *)
(* '$' is the end of the text.                                             *)
(***************************************************************************)
AliasMatchAt(s, i) ==
    IF CharAt(s, i) # ")" THEN 0
    ELSE LET a == SkipSpaces(s, i + 1)
         IN  IF a = i + 1 \/ StrUpper(SubSeq(s, a, a + 1)) # "AS" THEN 0
             ELSE LET w == SkipSpaces(s, a + 2)
                      e == SkipWord(s, w)
                  IN  IF w = a + 2 \/ e = w \/ e # Len(s) + 1 THEN 0 ELSE w

\* group(1) of the leftmost match, None when the search finds nothing
AliasSearch(s) ==
    LET hits == {i \in 1..Len(s) : AliasMatchAt(s, i) > 0}
    IN  IF hits = {} THEN None
        ELSE LET i == CHOOSE k \in hits : \A j \in hits : k <= j
             IN  SubSeq(s, AliasMatchAt(s, i), Len(s))

(***************************************************************************)
(* The facade's text helpers (api.py).                                     *)
(***************************************************************************)
QUERY_RESULT == "QUERY_RESULT"

\* query_or_table.strip().startswith('(')
IsQuery(query_or_table) == StartsWith(StrStrip(query_or_table), "(")

\* the derivation with the alias as written, without .upper()
AliasDestinationAsWritten(query) ==
    LET Dest(m) == IF m # None THEN m ELSE QUERY_RESULT
    IN  Dest(AliasSearch(StrStrip(query)))

\* the inline derivation of core.transfer_data and api._derive_destination:
\* re.search on the stripped text, group 1 upper-cased, else the sentinel
AliasDestination(query) ==
    LET Dest(m) == IF m # None THEN StrUpper(m) ELSE QUERY_RESULT
    IN  Dest(AliasSearch(StrStrip(query)))

DeriveDestination(query_or_table) ==
    IF IsQuery(query_or_table)
    THEN AliasDestination(query_or_table)
    ELSE StrUpper(AfterLastDot(query_or_table))

ApplyLimitToQuery(query, limit) ==
    IF ~StrContains(StrUpper(query), "TOP ")
    THEN ReplaceFirst(query, "SELECT ", "SELECT TOP " \o IntToStr(limit) \o " ")
    ELSE query

(***************************************************************************)
(* The source database, an external collaborator: a read of a table, or of *)
(* a query without a row cap, returns the SrcRows rows the source holds;   *)
(* a query whose first SELECT keyword (SQL keywords are case-insensitive)  *)
(* is followed by TOP n returns at most n of them.                         *)
(***************************************************************************)
SrcRows == 3

RECURSIVE SkipDigits(_, _)
SkipDigits(s, i) ==
    IF i <= Len(s) /\ CharAt(s, i) \in DigitChars
    THEN SkipDigits(s, i + 1) ELSE i

RECURSIVE StrToInt(_)
StrToInt(s) ==
    IF Len(s) = 0 THEN 0
    ELSE 10 * StrToInt(SubSeq(s, 1, Len(s) - 1))
         + DigitValue(CharAt(s, Len(s)))

\* the cap of the upper-cased query u whose first SELECT is at s (0: none):
\* t, n, e are where TOP, the number and the text after it start
CapAt(u, s) ==
    LET Number(n, e) ==
            IF e = n THEN -1 ELSE StrToInt(SubSeq(u, n, e - 1))
        Top(t, n) ==
            IF t = s + 6 \/ SubSeq(u, t, t + 2) # "TOP" \/ n = t + 3 THEN -1
            ELSE Number(n, SkipDigits(u, n))
        Select(t) == Top(t, SkipSpaces(u, t + 3))
    IN  IF s = 0 THEN -1 ELSE Select(SkipSpaces(u, s + 6))

\* the cap of the query's first SELECT, -1 when it has none
QueryCap(query) ==
    LET Cap(u) == CapAt(u, StrFind(u, "SELECT"))
    IN  Cap(StrUpper(query))

Min(a, b) == IF a <= b THEN a ELSE b

RowsOfQuery(query) ==
    LET Rows(cap) == IF cap < 0 THEN SrcRows ELSE Min(cap, SrcRows)
    IN  Rows(QueryCap(query))

(***************************************************************************)
(* Faults: the points at which an external collaborator may fail during    *)
(* one call.  A call's input F is the set of points that fail.             *)
(*   get_config  get_config() raises (missing or invalid environment)      *)
(*   factory     building the source connection factory raises             *)
(*   session     Session.builder...create() raises                         *)
(*   create      a CREATE ... IF NOT EXISTS statement is refused           *)
(*   flaky       the first statement of from_config's try block fails for  *)
(*               a reason other than a missing object                      *)
(*   read1       the first session.read.dbapi call raises                  *)
(*   probe       the schema probe's cursor.execute raises, on the          *)
(*               connection the probe has opened                           *)
(*   read2       the read with the probed schema raises                    *)
(*   limit, count, write   df.limit, df.count, save_as_table raise         *)
(*   meta        writing the metadata file raises                          *)
(*   close       session.close() raises                                    *)
(*   query       a raw cursor.execute / fetchall raises                    *)
(*   sql         session.sql("SELECT 1").collect() raises                  *)
(***************************************************************************)
FaultPoints ==
    {"get_config", "factory", "session", "create", "flaky", "read1", "probe",
     "read2", "limit", "count", "write", "meta", "close", "query", "sql"}

(***************************************************************************)
(* The warehouse: dbs is the set of existing databases, schemas the set of *)
(* existing <<database, schema>> pairs.  A session is a position of the    *)
(* sequence sess, holding "open" or "closed".                              *)
(***************************************************************************)
NoSession == 0

\* session.sql(stmt).collect() for one statement of from_config, in database
\* db; st = [stmts, dbs, schemas, raised], first = the try block's first
ExecStmt(st, stmt, db, F, first) ==
    LET kind == stmt[1]
        name == stmt[2]
        fails ==
            \/ first /\ "flaky" \in F
            \/ kind \in {"CREATE DATABASE", "CREATE SCHEMA"} /\ "create" \in F
            \/ kind = "USE DATABASE" /\ name \notin st.dbs
            \/ kind = "USE SCHEMA" /\ <<db, name>> \notin st.schemas
    IN  [stmts   |-> Append(st.stmts, stmt),
         dbs     |-> IF ~fails /\ kind = "CREATE DATABASE"
                     THEN st.dbs \cup {name} ELSE st.dbs,
         schemas |-> IF ~fails /\ kind = "CREATE SCHEMA"
                     THEN st.schemas \cup {<<db, name>>} ELSE st.schemas,
         raised  |-> fails]

\* the statements of a block in order, stopping at the first that raises
RECURSIVE RunStmts(_, _, _, _, _)
RunStmts(st, block, db, F, first) ==
    IF st.raised \/ block = <<>> THEN st
    ELSE RunStmts(ExecStmt(st, Head(block), db, F, first), Tail(block), db, F,
                  FALSE)

\* the try block of from_config (lines 147-159) for config
SetupBlock(config) ==
    (IF config.create_db_if_missing
     THEN <<(<<"CREATE DATABASE", config.database>>)>> ELSE <<>>)
    \o <<(<<"USE DATABASE", config.database>>)>>
    \o (IF config.schema # ""
        THEN (IF config.create_db_if_missing
              THEN <<(<<"CREATE SCHEMA", config.schema>>)>> ELSE <<>>)
             \o <<(<<"USE SCHEMA", config.schema>>)>>
        ELSE <<>>)

\* the second attempt of from_config (lines 167-170)
RetryBlock(config) ==
    <<(<<"USE DATABASE", config.database>>)>>
    \o (IF config.schema # "" THEN <<(<<"USE SCHEMA", config.schema>>)>>
        ELSE <<>>)

(***************************************************************************)
(* SnowflakeConnection.from_config: config = [database, schema,            *)
(* create_db_if_missing].  ok = a connection is returned (else             *)
(* ConnectionError is raised), sid = its session, sess/dbs/schemas and     *)
(* stmts = the warehouse afterwards and the statements issued.  A session  *)
(* created before the failure stays in sess, open and unreferenced.        *)
(***************************************************************************)
\* from_config as it would be if the except clause of lines 161-172 only
\* logged the error whatever the flag
FromConfigLenient(config, F, sess, dbs, schemas) ==
    IF "session" \in F
    THEN [ok |-> FALSE, sid |-> NoSession, sess |-> sess, stmts |-> <<>>,
          dbs |-> dbs, schemas |-> schemas]
    ELSE
    LET sess1 == Append(sess, "open")
        st0 == [stmts |-> <<>>, dbs |-> dbs, schemas |-> schemas,
                raised |-> FALSE]
    IN  IF config.database = ""
        THEN [ok |-> TRUE, sid |-> Len(sess1), sess |-> sess1,
              stmts |-> <<>>, dbs |-> dbs, schemas |-> schemas]
        ELSE
        LET Done(b) ==
                [ok |-> TRUE, sid |-> Len(sess1), sess |-> sess1,
                 stmts |-> b.stmts, dbs |-> b.dbs, schemas |-> b.schemas]
        IN  Done(RunStmts(st0, SetupBlock(config), config.database, F, TRUE))

FromConfig(config, F, sess, dbs, schemas) ==
    IF "session" \in F
    THEN [ok |-> FALSE, sid |-> NoSession, sess |-> sess, stmts |-> <<>>,
          dbs |-> dbs, schemas |-> schemas]
    ELSE
    LET sess1 == Append(sess, "open")
        st0 == [stmts |-> <<>>, dbs |-> dbs, schemas |-> schemas,
                raised |-> FALSE]
    IN  IF config.database = ""
        THEN [ok |-> TRUE, sid |-> Len(sess1), sess |-> sess1,
              stmts |-> <<>>, dbs |-> dbs, schemas |-> schemas]
        ELSE
        LET Done(r) ==
                [ok |-> ~r.raised,
                 sid |-> IF r.raised THEN NoSession ELSE Len(sess1),
                 sess |-> sess1, stmts |-> r.stmts,
                 dbs |-> r.dbs, schemas |-> r.schemas]
            Except(b) ==
                Done(IF b.raised /\ ~config.create_db_if_missing
                     THEN RunStmts([b EXCEPT !.raised = FALSE],
                                   RetryBlock(config), config.database, F,
                                   FALSE)
                     ELSE [b EXCEPT !.raised = FALSE])
        IN  Except(RunStmts(st0, SetupBlock(config), config.database, F,
                            TRUE))

(***************************************************************************)
(* core.DataTransfer.  An engine is [source_connection, snowflake_         *)
(* connection, session]: the factory ("factory" or None) and the session   *)
(* held (NoSession for None).  transfer_stats is <<>> for the empty dict   *)
(* of __init__.                                                            *)
(***************************************************************************)
NewEngine ==
    [source_connection |-> None, snowflake_connection |-> NoSession,
     session |-> NoSession, transfer_stats |-> <<>>]

SupportedTypes == {"sqlserver", "postgresql", "mysql", "oracle", "databricks"}

\* setup_connections: [result, engine, sess, stmts, dbs, schemas]
SetupConnections(e, cfg, F, sess, dbs, schemas) ==
    IF cfg.database_type \notin SupportedTypes
    THEN [result |-> FALSE, raised |-> FALSE, engine |-> e, sess |-> sess,
          stmts |-> <<>>, dbs |-> dbs, schemas |-> schemas]
    ELSE
    IF "factory" \in F
    THEN [result |-> FALSE, raised |-> FALSE, engine |-> e, sess |-> sess,
          stmts |-> <<>>, dbs |-> dbs, schemas |-> schemas]
    ELSE
    LET e1 == [e EXCEPT !.source_connection = "factory"]
        Done(c) ==
            [result |-> c.ok, raised |-> FALSE,
             engine |-> IF c.ok
                        THEN [e1 EXCEPT !.snowflake_connection = c.sid,
                                        !.session = c.sid]
                        ELSE e1,
             sess |-> c.sess, stmts |-> c.stmts,
             dbs |-> c.dbs, schemas |-> c.schemas]
    IN  Done(FromConfig([database |-> cfg.snowflake.database,
                         schema |-> cfg.snowflake.db_schema,
                         create_db_if_missing |->
                             cfg.snowflake.create_db_if_missing],
                        F, sess, dbs, schemas))

(***************************************************************************)
(* cleanup and SnowflakeConnection.close.  Session.close() leaves the      *)
(* session closed whether or not it raises; both callers catch Exception.  *)
(***************************************************************************)
\* snowflake.snowpark.Session.close (external)
SessionClose(sid, F, sess) ==
    [sess |-> [sess EXCEPT ![sid] = "closed"], raised |-> "close" \in F]

\* SnowflakeConnection.close: the session is always set; except Exception
CloseConnection(sid, F, sess) ==
    [sess |-> SessionClose(sid, F, sess).sess, raised |-> FALSE]

\* cleanup and close as they would be without their except clauses: an
\* error of Session.close escapes
CleanupNoExcept(e, F, sess) ==
    IF e.snowflake_connection # NoSession
    THEN SessionClose(e.snowflake_connection, F, sess)
    ELSE [sess |-> sess, raised |-> FALSE]

\* DataTransfer.cleanup: [sess, raised]; except Exception catches the rest
Cleanup(e, F, sess) ==
    IF e.snowflake_connection # NoSession
    THEN [sess |-> CloseConnection(e.snowflake_connection, F, sess).sess,
          raised |-> FALSE]
    ELSE [sess |-> sess, raised |-> FALSE]

(***************************************************************************)
(* Reads.  A read is [kind, text, custom_schema, ok, rows]: kind "table"   *)
(* or "query" for session.read.dbapi (which uses the session and hands it  *)
(* the factory), "probe" and "raw" for a cursor the code opens itself from *)
(* the factory.  A call on a missing session or factory raises before any  *)
(* read is issued (None has no attribute read, None is not callable); a    *)
(* read through a closed session is issued and fails.                      *)
(***************************************************************************)
SessionRead(e, sess, kind, text, custom_schema, fault, F) ==
    LET ok == sess[e.session] = "open" /\ fault \notin F
    IN  [kind |-> kind, text |-> text, custom_schema |-> custom_schema,
         ok |-> ok,
         rows |-> IF ~ok THEN 0
                  ELSE IF kind = "table" THEN SrcRows ELSE RowsOfQuery(text)]

\* the result of a transfer helper whose last read is r: [ok, reads, rows]
ReadResult(before, r) ==
    [ok |-> r.ok, reads |-> Append(before, r), rows |-> r.rows]

\* str.rfind(')'), 1-based, 0 when none
LastParen(s) ==
    LET ps == {i \in 1..Len(s) : CharAt(s, i) = ")"}
    IN  IF ps = {} THEN 0 ELSE CHOOSE i \in ps : \A j \in ps : j <= i

ExtractInnerQuery(query) ==
    LET q == StrStrip(query)
    IN  IF StartsWith(q, "(") /\ LastParen(q) > 0
        THEN StrStrip(SubSeq(q, 2, LastParen(q) - 1))
        ELSE q

SchemaQuery(query) ==
    "SELECT TOP 0 * FROM (" \o ExtractInnerQuery(query)
        \o ") AS schema_detection"

\* _execute_table_transfer: [ok, reads, rows]
ExecuteTableTransfer(e, sess, table_name, F) ==
    IF e.session = NoSession
    THEN [ok |-> FALSE, reads |-> <<>>, rows |-> 0]
    ELSE ReadResult(<<>>, SessionRead(e, sess, "table", table_name, FALSE,
                                      "read1", F))

\* a fallback that reads again whatever the probe did
QueryFallbackIgnoringProbe(e, sess, query, first, F) ==
    IF e.source_connection = None \/ e.session = NoSession
    THEN [ok |-> FALSE, reads |-> first, rows |-> 0]
    ELSE ReadResult(first \o <<[kind |-> "probe", text |-> SchemaQuery(query), custom_schema |-> FALSE, ok |-> "probe" \notin F, rows |-> 0]>>,
                    SessionRead(e, sess, "query", query, TRUE, "read2", F))

\* the except branch of _execute_query_transfer with _get_query_schema,
\* after the first attempt gave first (<<>>: the session was missing)
QueryFallback(e, sess, query, first, F) ==
    IF e.source_connection = None
    THEN [ok |-> FALSE, reads |-> first, rows |-> 0]
    ELSE
    LET probe == [kind |-> "probe", text |-> SchemaQuery(query),
                  custom_schema |-> FALSE, ok |-> "probe" \notin F,
                  rows |-> 0]
    IN  IF ~probe.ok \/ e.session = NoSession
        THEN [ok |-> FALSE, reads |-> first \o <<probe>>, rows |-> 0]
        ELSE ReadResult(first \o <<probe>>,
                        SessionRead(e, sess, "query", query, TRUE, "read2",
                                    F))

\* _execute_query_transfer: [ok, reads, rows]
ExecuteQueryTransfer(e, sess, query, F) ==
    LET Try(first) ==
            IF first # <<>> /\ first[1].ok
            THEN [ok |-> TRUE, reads |-> first, rows |-> first[1].rows]
            ELSE QueryFallback(e, sess, query, first, F)
    IN  Try(IF e.session = NoSession THEN <<>>
            ELSE <<SessionRead(e, sess, "query", query, FALSE, "read1",
                               F)>>)

(***************************************************************************)
(* transfer_table: [result, raised, reads, writes, done, saved].  done is  *)
(* the set of stages that completed; the write is issued with the          *)
(* configuration's destination and mode; a failed metadata save is logged  *)
(* as a warning inside _save_transfer_metadata and changes nothing else.   *)
(***************************************************************************)
\* the stages after the read as they would be if _save_transfer_metadata
\* let its exception through to transfer_table's except clause
TransferAfterReadMetaRaises(rd, cfg, limit_rows, F) ==
    LET limited == limit_rows # 0
        rows == IF limited THEN Min(limit_rows, rd.rows) ELSE rd.rows
        okLimit == rd.ok /\ (limited => "limit" \notin F)
        okCount == okLimit /\ "count" \notin F
        okWrite == okCount /\ "write" \notin F
        saved == okWrite /\ cfg.transfer.save_metadata /\ "meta" \notin F
    IN  [result |-> okWrite /\ (cfg.transfer.save_metadata => saved),
         raised |-> FALSE,
         reads  |-> rd.reads,
         writes |-> IF okCount
                    THEN <<[table |-> cfg.transfer.destination_table,
                            mode |-> cfg.transfer.mode,
                            rows |-> rows, ok |-> okWrite]>>
                    ELSE <<>>,
         done   |-> (IF rd.ok THEN {"read"} ELSE {})
                    \cup (IF okLimit /\ limited THEN {"limit"} ELSE {})
                    \cup (IF okCount THEN {"count"} ELSE {})
                    \cup (IF okWrite THEN {"write", "stats"} ELSE {})
                    \cup (IF saved THEN {"metadata"} ELSE {}),
         saved  |-> saved]

\* the stages of transfer_table after the read gave rd: row cap, count,
\* write, statistics, metadata
TransferAfterRead(rd, cfg, limit_rows, F) ==
    LET limited == limit_rows # 0
        rows == IF limited THEN Min(limit_rows, rd.rows) ELSE rd.rows
        okLimit == rd.ok /\ (limited => "limit" \notin F)
        okCount == okLimit /\ "count" \notin F
        okWrite == okCount /\ "write" \notin F
        saved == okWrite /\ cfg.transfer.save_metadata /\ "meta" \notin F
    IN  [result |-> okWrite,
         raised |-> FALSE,
         reads  |-> rd.reads,
         writes |-> IF okCount
                    THEN <<[table |-> cfg.transfer.destination_table,
                            mode |-> cfg.transfer.mode,
                            rows |-> rows, ok |-> okWrite]>>
                    ELSE <<>>,
         done   |-> (IF rd.ok THEN {"read"} ELSE {})
                    \cup (IF okLimit /\ limited THEN {"limit"} ELSE {})
                    \cup (IF okCount THEN {"count"} ELSE {})
                    \cup (IF okWrite THEN {"write", "stats"} ELSE {})
                    \cup (IF saved THEN {"metadata"} ELSE {}),
         saved  |-> saved]

TransferTable(e, sess, cfg, query, limit_rows, F) ==
    TransferAfterRead(
        IF query # None /\ query # ""
        THEN ExecuteQueryTransfer(e, sess, query, F)
        ELSE ExecuteTableTransfer(e, sess, cfg.transfer.source_table, F),
        cfg, limit_rows, F)

\* the DataTransfer after transfer_table returned t: transfer_stats is
\* assigned once, after the write and before the metadata is saved, from
\* the clock read on entry (start_time) and read again after the write
RecordTransferStats(e, t, start_time, end_time) ==
    IF "stats" \in t.done
    THEN [e EXCEPT !.transfer_stats =
                       [start_time |-> start_time, end_time |-> end_time,
                        rows_transferred |-> t.writes[1].rows,
                        errors |-> 0, warnings |-> 0]]
    ELSE e

\* LowLevelTransferEngine.get_raw_statistics
GetRawStatistics(e) == e.transfer_stats

(***************************************************************************)
(* Configuration.  A Config is [database_type, snowflake, source,          *)
(* transfer]; each sub-record is a record of its fields, so hasattr is     *)
(* membership in its DOMAIN and setattr is EXCEPT.  An Optional[bool]      *)
(* argument is <<>> for None and <<b>> for the boolean b; an Optional[int] *)
(* row limit is 0 for None (both are falsy).                               *)
(***************************************************************************)
\* a merge that sets the field in every sub-record that has it
SetOverrideEverywhere(config, key, value) ==
    LET SetIn(g) == IF key \in DOMAIN g THEN [g EXCEPT ![key] = value] ELSE g
    IN  [config EXCEPT !.snowflake = SetIn(@), !.source = SetIn(@),
                       !.transfer = SetIn(@)]

\* setattr on the first of snowflake, source, transfer that has the field
SetOverride(config, key, value) ==
    IF key \in DOMAIN config.snowflake
    THEN [config EXCEPT !.snowflake[key] = value]
    ELSE IF key \in DOMAIN config.source
    THEN [config EXCEPT !.source[key] = value]
    ELSE IF key \in DOMAIN config.transfer
    THEN [config EXCEPT !.transfer[key] = value]
    ELSE config

\* for key, value in config_overrides.items(): the keys are distinct, and
\* distinct keys set distinct fields, so the order does not matter
RECURSIVE ApplyOverrides(_, _, _)
ApplyOverrides(config, config_overrides, keys) ==
    IF keys = {} THEN config
    ELSE LET k == CHOOSE k \in keys : TRUE
         IN  ApplyOverrides(SetOverride(config, k, config_overrides[k]),
                            config_overrides, keys \ {k})

\* _get_config_with_overrides after get_config() returned config; a is the
\* record of the call's override arguments
GetConfigWithOverrides(config, a) ==
    LET c1 == IF a.snowflake_database \notin {None, ""}
              THEN [config EXCEPT
                      !.snowflake.database = a.snowflake_database,
                      !.snowflake.create_db_if_missing =
                          IF a.create_db_if_missing = <<>> THEN FALSE ELSE @]
              ELSE config
        c2 == IF a.snowflake_schema \notin {None, ""}
              THEN [c1 EXCEPT !.snowflake.db_schema = a.snowflake_schema]
              ELSE c1
        c3 == IF a.snowflake_warehouse \notin {None, ""}
              THEN [c2 EXCEPT !.snowflake.warehouse = a.snowflake_warehouse]
              ELSE c2
        c4 == IF a.source_database \notin {None, ""}
              THEN [c3 EXCEPT !.source.database = a.source_database]
              ELSE c3
        c5 == IF a.create_db_if_missing # <<>>
              THEN [c4 EXCEPT !.snowflake.create_db_if_missing =
                                  a.create_db_if_missing[1]]
              ELSE c4
    IN  ApplyOverrides(c5, a.config_overrides, DOMAIN a.config_overrides)

(***************************************************************************)
(* core.transfer_data: one engine, set up, used once and cleaned up in the *)
(* finally clause.  The outcome is [result, raised, cfg, query, setup,     *)
(* reads, writes, done, stmts, sess, dbs, schemas].                        *)
(***************************************************************************)
TransferData(config, query, F, dbs, schemas) ==
    LET isq == query # None /\ query # ""
        cfg == IF isq /\ config.transfer.destination_table = ""
               THEN [config EXCEPT !.transfer.destination_table =
                                       AliasDestination(query)]
               ELSE config
        Finally(s, t, c) ==
            [result |-> t.result, raised |-> t.raised \/ c.raised,
             cfg |-> cfg, query |-> query, setup |-> s.result,
             reads |-> t.reads, writes |-> t.writes, done |-> t.done,
             stmts |-> s.stmts, sess |-> c.sess, dbs |-> s.dbs,
             schemas |-> s.schemas]
        Try(s) ==
            Finally(s,
                    IF s.result
                    THEN TransferTable(s.engine, s.sess, cfg, query, 0, F)
                    ELSE [result |-> FALSE, raised |-> FALSE, reads |-> <<>>,
                          writes |-> <<>>, done |-> {}, saved |-> FALSE],
                    Cleanup(s.engine, F, s.sess))
    IN  Try(SetupConnections(NewEngine, cfg, F, <<>>, dbs, schemas))

(***************************************************************************)
(* The high-level facade (api.py).                                         *)
(***************************************************************************)
TransferQueryHighlevel(query, destination, limit, mode, config, F, dbs, schemas) ==
    LET dest == IF destination \in {None, ""}
                THEN DeriveDestination(query) ELSE destination
        q == IF limit # 0 THEN ApplyLimitToQuery(query, limit) ELSE query
    IN  TransferData([config EXCEPT !.transfer.destination_table = dest,
                                    !.transfer.mode = mode],
                     q, F, dbs, schemas)

\* _transfer_table_highlevel as it would be with the destination taken from
\* the part before the first '.'
TransferTableHighlevelFirstPart(table, destination, limit, mode, config, F, dbs, schemas) ==
    LET dot == StrFind(table, ".")
        dest == IF destination \in {None, ""}
                THEN StrUpper(IF dot = 0 THEN table
                              ELSE SubSeq(table, 1, dot - 1))
                ELSE destination
        cfg == [config EXCEPT !.transfer.source_table = table,
                              !.transfer.destination_table = dest,
                              !.transfer.mode = mode]
    IN  TransferData(cfg,
                     IF limit # 0
                     THEN "(SELECT TOP " \o IntToStr(limit) \o " * FROM "
                          \o table \o ") AS " \o dest
                     ELSE None,
                     F, dbs, schemas)

TransferTableHighlevel(table, destination, limit, mode, config, F, dbs, schemas) ==
    LET dest == IF destination \in {None, ""}
                THEN StrUpper(AfterLastDot(table)) ELSE destination
        cfg == [config EXCEPT !.transfer.source_table = table,
                              !.transfer.destination_table = dest,
                              !.transfer.mode = mode]
    IN  TransferData(cfg,
                     IF limit # 0
                     THEN "(SELECT TOP " \o IntToStr(limit) \o " * FROM "
                          \o table \o ") AS " \o dest
                     ELSE None,
                     F, dbs, schemas)

\* the try block of transfer(): base is what get_config() returns when it
\* does not raise
TransferTry(query_or_table, destination, limit, mode, a, base, F, dbs, schemas) ==
    IF "get_config" \in F
    THEN [result |-> FALSE, raised |-> TRUE, cfg |-> base, query |-> None,
          setup |-> FALSE, reads |-> <<>>, writes |-> <<>>, done |-> {},
          stmts |-> <<>>, sess |-> <<>>, dbs |-> dbs, schemas |-> schemas]
    ELSE LET config == GetConfigWithOverrides(base, a)
         IN  IF IsQuery(query_or_table)
             THEN TransferQueryHighlevel(query_or_table, destination,
                      limit, mode, config, F, dbs, schemas)
             ELSE TransferTableHighlevel(query_or_table, destination,
                      limit, mode, config, F, dbs, schemas)

\* transfer() as it would be without its except clause
TransferNoExcept(query_or_table, destination, limit, mode, a, base, F, dbs, schemas) ==
    TransferTry(query_or_table, destination, limit, mode, a, base, F, dbs,
                schemas)

\* transfer(): the except clause turns every exception into False
Transfer(query_or_table, destination, limit, mode, a, base, F, dbs, schemas) ==
    LET Except(r) ==
            IF r.raised THEN [r EXCEPT !.result = FALSE, !.raised = FALSE]
            ELSE r
    IN  Except(TransferTry(query_or_table, destination, limit, mode, a, base,
                           F, dbs, schemas))

\* _validate_source_data: a placeholder, valid whatever the source and rules
ValidateSourceData(query_or_table, rules) ==
    [valid |-> TRUE, checks |-> <<"existence", "permissions">>]

\* _validate_transferred_data: a placeholder
ValidateTransferredData(destination_table) ==
    [row_count_match |-> TRUE, schema_match |-> TRUE]

\* transfer_with_validation with the post-transfer validation run after
\* every transfer
TransferWithValidationAlwaysPost(query_or_table, destination, a, base, F, dbs, schemas) ==
    LET Ran(t) ==
            [validation_results |->
                 [pre_transfer |-> ValidateSourceData(query_or_table, None),
                  transfer_success |-> t.result,
                  post_transfer |-> ValidateTransferredData(destination)],
             transfers |-> <<t>>, dbs |-> t.dbs, schemas |-> t.schemas]
    IN  Ran(Transfer(query_or_table, destination, 0, "overwrite", a, base, F, dbs, schemas))

\* transfer_with_validation: [validation_results, transfers, dbs, schemas];
\* transfers holds what each call of transfer() did
TransferWithValidation(query_or_table, destination, a, base, F, dbs, schemas) ==
    LET Ran(t) ==
            [validation_results |->
                 [pre_transfer |-> ValidateSourceData(query_or_table, None),
                  transfer_success |-> t.result,
                  post_transfer |->
                      IF t.result
                      THEN ValidateTransferredData(
                               IF destination \notin {None, ""} THEN destination
                               ELSE DeriveDestination(query_or_table))
                      ELSE <<>>],
             transfers |-> <<t>>, dbs |-> t.dbs, schemas |-> t.schemas]
    IN  IF ~ValidateSourceData(query_or_table, None).valid
        THEN [validation_results |->
                  [pre_transfer |-> ValidateSourceData(query_or_table, None),
                   transfer_success |-> FALSE, post_transfer |-> <<>>],
              transfers |-> <<>>, dbs |-> dbs, schemas |-> schemas]
        ELSE Ran(Transfer(query_or_table, destination, 0, "overwrite", a, base, F, dbs, schemas))

\* transfer_sample(query_or_table, rows, ...): destination_suffix is unused
TransferSample(query_or_table, rows, a, base, F, dbs, schemas) ==
    Transfer(query_or_table, None, rows, "overwrite", a, base, F, dbs,
             schemas)

(***************************************************************************)
(* api.LowLevelTransferEngine and api.ConnectionManager, on an engine that *)
(* lives across calls.  Each returns [result, raised, reads, ...]: raised  *)
(* says that an exception escaped the call.                                *)
(***************************************************************************)
\* execute_raw_query: the RuntimeError guard, then a cursor of the code's own
ExecuteRawQuery(e, established, sql, F) ==
    IF ~established
    THEN [result |-> FALSE, raised |-> TRUE, reads |-> <<>>]
    ELSE [result |-> "query" \notin F, raised |-> "query" \in F,
          reads |-> <<[kind |-> "raw", text |-> sql,
                       custom_schema |-> FALSE, ok |-> "query" \notin F,
                       rows |-> 0]>>]

\* ConnectionManager.execute_transfer(query_or_table) on the manager's
\* DataTransfer held in transfer (<<>> is None, before connect): [result,
\* raised, reads, writes, done, config]
ExecuteTransfer(transfer, sess, config, query_or_table, F) ==
    LET Done(t, c) ==
            [result |-> t.result, raised |-> t.raised, reads |-> t.reads,
             writes |-> t.writes, done |-> t.done, config |-> c]
        Table(c) == Done(TransferTable(transfer[1], sess, c, None, 0, F), c)
    IN  IF transfer = <<>>
        THEN [result |-> FALSE, raised |-> TRUE, reads |-> <<>>,
              writes |-> <<>>, done |-> {}, config |-> config]
        ELSE IF IsQuery(query_or_table)
        THEN Done(TransferTable(transfer[1], sess, config, query_or_table, 0,
                                F),
                  config)
        ELSE Table([config EXCEPT !.transfer.source_table = query_or_table])

\* LowLevelTransferEngine.create_snowpark_dataframe(query_or_table,
\* custom_schema): given says whether the caller passed a schema; [result,
\* raised, reads].  The fallback of the except clause is for a query read
\* without a schema of the caller's; everything else is raised again.
CreateSnowparkDataframe(e, established, sess, query_or_table, given, F) ==
    LET is_query ==
            \/ StartsWith(StrUpper(StrStrip(query_or_table)), "SELECT")
            \/ StartsWith(StrStrip(query_or_table), "(")
        Out(r) == [result |-> r.ok, raised |-> ~r.ok, reads |-> r.reads]
        First(first) ==
            IF first.ok \/ given \/ ~is_query
            THEN Out(ReadResult(<<>>, first))
            ELSE Out(QueryFallback(e, sess, query_or_table, <<first>>, F))
    IN  IF ~established
        THEN [result |-> FALSE, raised |-> TRUE, reads |-> <<>>]
        ELSE First(SessionRead(e, sess, IF is_query THEN "query" ELSE "table", query_or_table, given, "read1", F))

\* the source connections the steps of a call opened by calling the
\* factory themselves, and whether the step closed them: _get_query_schema
\* closes its connection after the last statement of the success path,
\* execute_raw_query and test_connections close the cursor only, and
\* connections.test_connection closes inside its try block
SourceConnections(reads) ==
    LET OwnStep(r) == r.kind \in {"probe", "raw", "check", "test"}
        Opened(own) ==
            [i \in 1..Len(own) |->
                [by |-> own[i].kind,
                 closed |-> own[i].kind \in {"probe", "test"} /\ own[i].ok]]
    IN  Opened(SelectSeq(reads, OwnStep))

\* the two probes of test_connections on the DataTransfer e: the source
\* probe opens a connection when the factory is there
ProbeBoth(e, sess, F, source_ok) ==
    [results |-> [source_db |-> source_ok,
                  snowflake |-> /\ e.session # NoSession
                                /\ sess[e.session] = "open"
                                /\ "sql" \notin F],
     reads |-> IF e.source_connection = None THEN <<>>
               ELSE <<[kind |-> "check", text |-> "SELECT 1", custom_schema |-> FALSE, ok |-> source_ok, rows |-> 0]>>]

\* test_connections with both probes in one try block
TestConnectionsSharedTry(transfer, config, F, sess, dbs, schemas) ==
    LET Probe(s) ==
            LET Both(p) ==
                    [results |-> [p.results EXCEPT !.snowflake = @ /\ p.results.source_db],
                     raised |-> FALSE, transfer |-> <<s.engine>>, reads |-> p.reads,
                     sess |-> s.sess, stmts |-> s.stmts, dbs |-> s.dbs, schemas |-> s.schemas]
            IN  Both(ProbeBoth(s.engine, s.sess, F, s.engine.source_connection # None /\ "query" \notin F))
    IN  Probe(IF transfer = <<>>
              THEN SetupConnections(NewEngine, config, F, sess, dbs, schemas)
              ELSE [engine |-> transfer[1], sess |-> sess, stmts |-> <<>>, dbs |-> dbs, schemas |-> schemas])

\* ConnectionManager.test_connections: connect() first when there is no
\* DataTransfer yet, then each probe in its own try block: [results,
\* raised, transfer, reads, sess, stmts, dbs, schemas]
TestConnections(transfer, config, F, sess, dbs, schemas) ==
    LET Probe(s) ==
            LET Both(p) ==
                    [results |-> p.results, raised |-> FALSE,
                     transfer |-> <<s.engine>>, reads |-> p.reads,
                     sess |-> s.sess, stmts |-> s.stmts, dbs |-> s.dbs, schemas |-> s.schemas]
            IN  Both(ProbeBoth(s.engine, s.sess, F, s.engine.source_connection # None /\ "query" \notin F))
    IN  Probe(IF transfer = <<>>
              THEN SetupConnections(NewEngine, config, F, sess, dbs, schemas)
              ELSE [engine |-> transfer[1], sess |-> sess, stmts |-> <<>>, dbs |-> dbs, schemas |-> schemas])

\* connections.test_connection(connection_factory)
TestConnection(connection_factory, F) ==
    IF connection_factory = None
    THEN [result |-> FALSE, raised |-> FALSE, reads |-> <<>>]
    ELSE [result |-> "query" \notin F, raised |-> FALSE,
          reads |-> <<[kind |-> "test", text |-> "SELECT 1", custom_schema |-> FALSE, ok |-> "query" \notin F, rows |-> 0]>>]

(***************************************************************************)
(* Inputs.                                                                 *)
(***************************************************************************)
Tables ==
    {"dbo.customers", "customers", "a.b.Orders", "dbo.t ", "dbo.",
     "SELECT f(x) AS y"}

Queries ==
    {"(SELECT * FROM t) AS s1",
     "(select * from t) as s1",
     "(SELECT TOP 9 * FROM t) AS s1",
     " (SELECT a FROM (SELECT a FROM t) u) AS Sub_1 ",
     "(SELECT * FROM t)",
     "(SELECT * FROM desktop t) AS s2",
     "(SELECT * FROM t)AS s1",
     "(SELECT * FROM t) AS my t",
     "(SELECT\t* FROM t)\tAS\ts3"}

Sources == Tables \cup Queries
Destinations == {None, "D1"}
Limits == 0..MaxLimit
\* the mode argument: a documented value, and one the API also accepts
Modes == {"append", "ignore"}

DbNames == {"DB1", "OTHER_DB"}
SchemaNames == {"PUBLIC"}

\* what get_config() returns: the environment's configuration
EnvConfig(cim, save) ==
    [database_type |-> "sqlserver",
     snowflake |-> [database |-> "DB1", db_schema |-> "PUBLIC",
                    warehouse |-> "WH", create_db_if_missing |-> cim],
     source |-> [host |-> "srchost", database |-> "SRC"],
     transfer |-> [source_table |-> "dbo.env_table",
                   destination_table |-> "ENV_TABLE",
                   mode |-> "overwrite", save_metadata |-> save]]

BaseConfigs == {EnvConfig(cim, TRUE) : cim \in BOOLEAN}

NoOverrides ==
    [snowflake_database |-> None, snowflake_schema |-> None,
     snowflake_warehouse |-> None, source_database |-> None,
     config_overrides |-> <<>>, create_db_if_missing |-> <<>>]

\* the override arguments of one call
OverrideArgs ==
    {NoOverrides,
     [NoOverrides EXCEPT !.snowflake_database = "OTHER_DB"],
     [NoOverrides EXCEPT !.snowflake_database = "OTHER_DB",
                         !.create_db_if_missing = <<TRUE>>],
     [NoOverrides EXCEPT !.snowflake_database = "OTHER_DB",
                         !.create_db_if_missing = <<FALSE>>],
     [NoOverrides EXCEPT !.create_db_if_missing = <<TRUE>>],
     [NoOverrides EXCEPT !.create_db_if_missing = <<FALSE>>],
     [NoOverrides EXCEPT !.config_overrides = [database |-> "OTHER_DB"]],
     [NoOverrides EXCEPT !.config_overrides = [database |-> ""]],
     [NoOverrides EXCEPT !.config_overrides =
                             [create_db_if_missing |-> TRUE]],
     [NoOverrides EXCEPT !.config_overrides = [nosuch |-> "1"]],
     [NoOverrides EXCEPT !.config_overrides =
                             [host |-> "h2", save_metadata |-> FALSE]],
     [NoOverrides EXCEPT !.config_overrides =
                             [mode |-> "append", destination_table |-> "OV_DEST"]],
     [NoOverrides EXCEPT !.snowflake_schema = "PUBLIC",
                         !.snowflake_warehouse = "WH2",
                         !.source_database = "SRC2"]}

\* the config_overrides dictionaries handed to the merge alone: fields of
\* each sub-record, a field two sub-records have (database), names in
\* another letter case, unknown names
MergeOverrides ==
    {<<>>,
     [database |-> "OTHER_DB"],
     [host |-> "h2", save_metadata |-> FALSE],
     [mode |-> "append", destination_table |-> "OV_DEST"],
     [Database |-> "X", HOST |-> "h3", Mode |-> "error"],
     [nosuch |-> "1"],
     [warehouse |-> "WH2", source_table |-> "dbo.ov", nosuch |-> "1", database |-> ""]}

MergeArgs ==
    OverrideArgs \cup {[NoOverrides EXCEPT !.config_overrides = o] : o \in MergeOverrides}

\* the fault sets of one facade call: no fault, one fault, or a pair that
\* reaches the end of the schema fallback or of from_config's retry
FacadeFaults ==
    {{}, {"get_config"}, {"session"}, {"create"}, {"flaky"}, {"read1"},
     {"write"}, {"meta"}, {"read1", "probe"}, {"read1", "read2"}}

\* the fault sets of one setup_connections call
SetupFaults == {{}, {"factory"}, {"session"}, {"create"}, {"flaky"}}

\* the fault sets of one transfer_table call
EngineFaults ==
    {{}, {"read1"}, {"limit"}, {"count"}, {"write"}, {"meta"},
     {"read1", "probe"}, {"read1", "read2"}, {"read1", "meta"}}

\* the fault sets of one test_connections call: of the probes, and of the
\* connect() it runs first when nothing is connected
TestFaults == {{}, {"query"}, {"sql"}, {"query", "sql"}, {"factory"}, {"session"}, {"create"}, {"session", "query"}}

EngineSources == {"dbo.customers", "(SELECT * FROM t) AS s1"}

(***************************************************************************)
(* State.                                                                  *)
(*   dbs, schemas  the warehouse                                           *)
(*   call          the facade call that has just returned, with all it did *)
(*   tier          which object the program drives: "low" (a               *)
(*                 LowLevelTransferEngine and its raw_transfer) or "mid"   *)
(*                 (a ConnectionManager)                                   *)
(*   engine        the DataTransfer of the low tier                        *)
(*   established   LowLevelTransferEngine.connection_established           *)
(*   manager       ConnectionManager.transfer: <<>> (None) or <<engine>>   *)
(*   config        the Config the engine or the manager was built with     *)
(*   sess          the sessions created so far                             *)
(*   connected     history: the most recent setup succeeded and no cleanup *)
(*                 has happened since                                      *)
(*   last          the engine call that has just returned, until the       *)
(*                 caller goes on                                          *)
(*   now           the clock datetime.now() reads: the transfer_table      *)
(*                 calls made so far on the long-lived objects             *)
(***************************************************************************)
VARIABLES dbs, schemas, call, tier, engine, established, manager, config,
          sess, connected, last, now, pipeline, tcall

vars == <<dbs, schemas, call, tier, engine, established, manager, config,
          sess, connected, last, now, pipeline, tcall>>

facadeVars == <<dbs, schemas, call>>
engineVars == <<tier, engine, established, manager, config, sess, connected,
                last, now>>
libraryVars == <<pipeline, tcall>>

Idle == [op |-> "idle"]

\* nothing constructed yet but the objects themselves
Fresh ==
    /\ call = Idle
    /\ engine = NewEngine
    /\ established = FALSE
    /\ manager = <<>>
    /\ sess = <<>>
    /\ connected = FALSE
    /\ last = Idle
    /\ now = 0
    /\ pipeline = <<>>
    /\ tcall = Idle

Init ==
    /\ dbs \in SUBSET {"DB1"}
    /\ schemas \in SUBSET (dbs \X SchemaNames)
    /\ tier \in {"low", "mid"}
    /\ config \in BaseConfigs
    /\ Fresh

InitFacade ==
    /\ dbs \in SUBSET DbNames
    /\ schemas \in SUBSET (dbs \X SchemaNames)
    /\ tier = "low"
    /\ config = EnvConfig(FALSE, TRUE)
    /\ Fresh

(***************************************************************************)
(* The facade: one action per call of a high-level function.               *)
(***************************************************************************)
\* transfer(query_or_table, destination, limit, mode, overrides...)
CallTransfer ==
    /\ call.op = "idle"
    /\ \E src \in Sources, destination \in Destinations, limit \in Limits,
          mode \in Modes, a \in OverrideArgs, base \in BaseConfigs,
          F \in FacadeFaults :
          call' = [op |-> "transfer", source |-> src,
                   destination |-> destination, limit |-> limit,
                   mode |-> mode, args |-> a, base |-> base, faults |-> F,
                   dbs0 |-> dbs, schemas0 |-> schemas,
                   out |-> Transfer(src, destination, limit, mode, a, base,
                                    F, dbs, schemas)]
    /\ dbs' = call'.out.dbs
    /\ schemas' = call'.out.schemas
    /\ UNCHANGED engineVars
    /\ UNCHANGED libraryVars

\* transfer_sample(query_or_table, rows, overrides...)
CallTransferSample ==
    /\ call.op = "idle"
    /\ \E src \in Sources, rows \in 1..MaxLimit, a \in OverrideArgs,
          base \in BaseConfigs, F \in FacadeFaults :
          call' = [op |-> "transfer_sample", source |-> src,
                   destination |-> None, limit |-> rows,
                   mode |-> "overwrite", args |-> a, base |-> base,
                   faults |-> F, dbs0 |-> dbs, schemas0 |-> schemas,
                   out |-> TransferSample(src, rows, a, base, F, dbs,
                                          schemas)]
    /\ dbs' = call'.out.dbs
    /\ schemas' = call'.out.schemas
    /\ UNCHANGED engineVars
    /\ UNCHANGED libraryVars

\* _derive_destination(query_or_table)
CallDeriveDestination ==
    /\ call.op = "idle"
    /\ \E src \in Sources :
          call' = [op |-> "_derive_destination", source |-> src,
                   derived |-> DeriveDestination(src)]
    /\ UNCHANGED <<dbs, schemas>>
    /\ UNCHANGED engineVars
    /\ UNCHANGED libraryVars

\* core.transfer_data(config, query) with a configuration that has a
\* destination or none
CallTransferData ==
    /\ call.op = "idle"
    /\ \E query \in Queries \cup {"SELECT f(x) AS y", None},
          dest \in {"", "ENV_TABLE"}, base \in BaseConfigs,
          F \in {{}, {"session"}, {"write"}} :
          call' = [op |-> "transfer_data", source |-> query,
                   destination |-> dest, base |-> base, faults |-> F,
                   dbs0 |-> dbs, schemas0 |-> schemas,
                   out |-> TransferData(
                       [base EXCEPT !.transfer.destination_table = dest],
                       query, F, dbs, schemas)]
    /\ dbs' = call'.out.dbs
    /\ schemas' = call'.out.schemas
    /\ UNCHANGED engineVars
    /\ UNCHANGED libraryVars

\* transfer_with_validation(query_or_table, destination, overrides...)
CallTransferWithValidation ==
    /\ call.op = "idle"
    /\ \E src \in Sources, destination \in Destinations, a \in OverrideArgs,
          base \in BaseConfigs, F \in FacadeFaults :
          call' = [op |-> "transfer_with_validation", source |-> src,
                   destination |-> destination, args |-> a, base |-> base,
                   faults |-> F, dbs0 |-> dbs, schemas0 |-> schemas,
                   validated |-> TransferWithValidation(src, destination, a, base, F, dbs, schemas)]
    /\ dbs' = call'.validated.dbs
    /\ schemas' = call'.validated.schemas
    /\ UNCHANGED engineVars
    /\ UNCHANGED libraryVars

\* _get_config_with_overrides(overrides...)
CallGetConfigWithOverrides ==
    /\ call.op = "idle"
    /\ \E a \in MergeArgs, base \in BaseConfigs :
          call' = [op |-> "_get_config_with_overrides", args |-> a, base |-> base,
                   merged |-> GetConfigWithOverrides(base, a)]
    /\ UNCHANGED <<dbs, schemas>>
    /\ UNCHANGED engineVars
    /\ UNCHANGED libraryVars

\* the caller has read the result; the warehouse keeps what was created
Return ==
    /\ call.op # "idle"
    /\ call' = Idle
    /\ UNCHANGED <<dbs, schemas>>
    /\ UNCHANGED engineVars
    /\ UNCHANGED libraryVars

NextFacade ==
    \/ CallTransfer
    \/ CallTransferSample
    \/ CallDeriveDestination
    \/ CallTransferData
    \/ CallTransferWithValidation
    \/ CallGetConfigWithOverrides
    \/ Return

SpecFacade == InitFacade /\ [][NextFacade]_vars

(***************************************************************************)
(* The engine: one action per method call on the long-lived objects.       *)
(***************************************************************************)
\* the caller has the result of op and makes no call
Returned(op) == [op |-> "idle", was |-> op]

\* what every engine action records of the state it started in; prev is
\* the call made before this one
Before(op, F) ==
    [op |-> op, faults |-> F, prev |-> IF last = Idle THEN "idle" ELSE last.was, engine0 |-> engine,
     manager0 |-> manager, sess0 |-> sess, connected0 |-> connected]

\* LowLevelTransferEngine.establish_raw_connections (setup_connections)
EstablishRawConnections ==
    /\ tier = "low"
    /\ last.op = "idle"
    /\ Len(sess) < MaxSessions
    /\ \E F \in SetupFaults :
          LET Done(s) ==
                  /\ engine' = s.engine
                  /\ established' = s.result
                  /\ connected' = s.result
                  /\ sess' = s.sess
                  /\ dbs' = s.dbs
                  /\ schemas' = s.schemas
                  /\ last' = [result |-> s.result, raised |-> s.raised,
                              reads |-> <<>>, conns |-> SourceConnections(<<>>), writes |-> <<>>,
                              stmts |-> s.stmts, query |-> None, limit |-> 0]
                             @@ Before("setup_connections", F)
          IN  Done(SetupConnections(engine, config, F, sess, dbs, schemas))
    /\ UNCHANGED <<call, tier, manager, config>>
    /\ UNCHANGED <<now, libraryVars>>

\* DataTransfer.transfer_table(query, limit_rows) on the low tier's engine
CallTransferTable ==
    /\ tier = "low"
    /\ last.op = "idle"
    /\ now < MaxClock
    /\ now' = now + 1
    /\ \E src \in EngineSources \cup {None}, limit_rows \in 0..1,
          F \in EngineFaults :
          LET Done(t) ==
                  /\ engine' = RecordTransferStats(engine, t, now, now')
                  /\ last' = [result |-> t.result, raised |-> t.raised,
                              reads |-> t.reads, conns |-> SourceConnections(t.reads), writes |-> t.writes,
                              stmts |-> <<>>, query |-> src,
                              limit |-> limit_rows, start_time |-> now]
                             @@ Before("transfer_table", F)
          IN  Done(TransferTable(engine, sess, config, src, limit_rows, F))
    /\ UNCHANGED <<dbs, schemas, call, tier, established, manager,
                   config, sess, connected>>
    /\ UNCHANGED libraryVars

\* LowLevelTransferEngine.execute_raw_query(sql)
CallExecuteRawQuery ==
    /\ tier = "low"
    /\ last.op = "idle"
    /\ \E F \in {{}, {"query"}} :
          LET Done(r) ==
                  last' = [result |-> r.result, raised |-> r.raised,
                           reads |-> r.reads, conns |-> SourceConnections(r.reads), writes |-> <<>>,
                           stmts |-> <<>>, query |-> "SELECT 1", limit |-> 0]
                          @@ Before("execute_raw_query", F)
          IN  Done(ExecuteRawQuery(engine, established, "SELECT 1", F))
    /\ UNCHANGED <<dbs, schemas, call, tier, engine, established, manager,
                   config, sess, connected>>
    /\ UNCHANGED <<now, libraryVars>>

\* DataTransfer.cleanup / LowLevelTransferEngine.cleanup_raw_connections
CallCleanup ==
    /\ tier = "low"
    /\ last.op = "idle"
    /\ \E F \in {{}, {"close"}} :
          LET Done(c) ==
                  /\ sess' = c.sess
                  /\ last' = [result |-> TRUE, raised |-> c.raised,
                              reads |-> <<>>, conns |-> SourceConnections(<<>>), writes |-> <<>>,
                              stmts |-> <<>>, query |-> None, limit |-> 0]
                             @@ Before("cleanup", F)
          IN  Done(Cleanup(engine, F, sess))
    /\ connected' = FALSE
    /\ UNCHANGED <<dbs, schemas, call, tier, engine, established, manager,
                   config>>
    /\ UNCHANGED <<now, libraryVars>>

\* ConnectionManager.connect: a new DataTransfer each time
ManagerConnect ==
    /\ tier = "mid"
    /\ last.op = "idle"
    /\ Len(sess) < MaxSessions
    /\ \E F \in SetupFaults :
          LET Done(s) ==
                  /\ manager' = <<s.engine>>
                  /\ connected' = s.result
                  /\ sess' = s.sess
                  /\ dbs' = s.dbs
                  /\ schemas' = s.schemas
                  /\ last' = [result |-> s.result, raised |-> s.raised,
                              reads |-> <<>>, conns |-> SourceConnections(<<>>), writes |-> <<>>,
                              stmts |-> s.stmts, query |-> None, limit |-> 0]
                             @@ Before("connect", F)
          IN  Done(SetupConnections(NewEngine, config, F, sess, dbs, schemas))
    /\ UNCHANGED <<call, tier, engine, established, config>>
    /\ UNCHANGED <<now, libraryVars>>

\* ConnectionManager.execute_transfer(query_or_table)
ManagerExecuteTransfer ==
    /\ tier = "mid"
    /\ last.op = "idle"
    /\ now < MaxClock
    /\ now' = now + 1
    /\ \E src \in EngineSources, F \in EngineFaults :
          LET Done(t) ==
                  /\ config' = t.config
                  /\ manager' = IF manager = <<>> THEN manager
                                ELSE <<RecordTransferStats(manager[1], t, now, now')>>
                  /\ last' = [result |-> t.result, raised |-> t.raised,
                              reads |-> t.reads, conns |-> SourceConnections(t.reads), writes |-> t.writes,
                              stmts |-> <<>>, query |-> src, limit |-> 0, start_time |-> now]
                             @@ Before("execute_transfer", F)
          IN  Done(ExecuteTransfer(manager, sess, config, src, F))
    /\ UNCHANGED <<dbs, schemas, call, tier, engine, established,
                   sess, connected>>
    /\ UNCHANGED libraryVars

\* ConnectionManager.test_connections
ManagerTestConnections ==
    /\ tier = "mid"
    /\ last.op = "idle"
    /\ manager # <<>> \/ Len(sess) < MaxSessions
    /\ \E F \in TestFaults :
          LET Done(r) ==
                  /\ manager' = r.transfer
                  /\ sess' = r.sess
                  /\ dbs' = r.dbs
                  /\ schemas' = r.schemas
                  /\ last' = [result |-> r.results, raised |-> r.raised,
                              reads |-> r.reads, conns |-> SourceConnections(r.reads), writes |-> <<>>,
                              stmts |-> r.stmts, query |-> None, limit |-> 0]
                             @@ Before("test_connections", F)
          IN  Done(TestConnections(manager, config, F, sess, dbs, schemas))
    /\ UNCHANGED <<call, tier, engine, established, config, connected>>
    /\ UNCHANGED <<now, libraryVars>>

\* LowLevelTransferEngine.create_snowpark_dataframe(query_or_table, schema)
CallCreateSnowparkDataframe ==
    /\ tier = "low"
    /\ last.op = "idle"
    /\ \E src \in EngineSources \cup {"select a from t"}, given \in BOOLEAN,
          F \in {{}, {"read1"}, {"read1", "probe"}, {"read1", "read2"}} :
          LET Done(r) ==
                  last' = [result |-> r.result, raised |-> r.raised,
                           reads |-> r.reads, conns |-> SourceConnections(r.reads), writes |-> <<>>,
                           stmts |-> <<>>, query |-> src, limit |-> 0, given |-> given]
                          @@ Before("create_snowpark_dataframe", F)
          IN  Done(CreateSnowparkDataframe(engine, established, sess, src, given, F))
    /\ UNCHANGED <<dbs, schemas, call, tier, engine, established, manager,
                   config, sess, connected>>
    /\ UNCHANGED <<now, libraryVars>>

\* connections.test_connection(factory) on the engine's factory
CallTestConnection ==
    /\ tier = "low"
    /\ last.op = "idle"
    /\ \E F \in {{}, {"query"}} :
          LET Done(r) ==
                  last' = [result |-> r.result, raised |-> r.raised,
                           reads |-> r.reads, conns |-> SourceConnections(r.reads), writes |-> <<>>,
                           stmts |-> <<>>, query |-> "SELECT 1", limit |-> 0]
                          @@ Before("test_connection", F)
          IN  Done(TestConnection(engine.source_connection, F))
    /\ UNCHANGED <<dbs, schemas, call, tier, engine, established, manager,
                   config, sess, connected>>
    /\ UNCHANGED <<now, libraryVars>>

\* ConnectionManager.close
ManagerClose ==
    /\ tier = "mid"
    /\ last.op = "idle"
    /\ \E F \in {{}, {"close"}} :
          LET Done(c) ==
                  /\ sess' = c.sess
                  /\ last' = [result |-> TRUE, raised |-> c.raised,
                              reads |-> <<>>, conns |-> SourceConnections(<<>>), writes |-> <<>>,
                              stmts |-> <<>>, query |-> None, limit |-> 0]
                             @@ Before("close", F)
          IN  Done(IF manager # <<>> THEN Cleanup(manager[1], F, sess)
                   ELSE [sess |-> sess, raised |-> FALSE])
    /\ connected' = FALSE
    /\ UNCHANGED <<dbs, schemas, call, tier, engine, established, manager,
                   config>>
    /\ UNCHANGED <<now, libraryVars>>

\* the caller has read the result of the engine call
ReturnEngine ==
    /\ last.op # "idle"
    /\ last' = Returned(last.op)
    /\ UNCHANGED <<dbs, schemas, call, tier, engine, established, manager,
                   config, sess, connected, now>>
    /\ UNCHANGED libraryVars

Next ==
    \/ EstablishRawConnections
    \/ CallTransferTable
    \/ CallExecuteRawQuery
    \/ CallCleanup
    \/ ManagerConnect
    \/ ManagerExecuteTransfer
    \/ ManagerTestConnections
    \/ CallCreateSnowparkDataframe
    \/ CallTestConnection
    \/ ManagerClose
    \/ ReturnEngine

Spec == Init /\ [][Next]_vars

(***************************************************************************)
(* transforms.py.  A Python value that reaches a transform is one of       *)
(*   PyNone, PyStr(s), PyDict(d), PyList(l)                                *)
(* and Raised stands for a call that ended with an exception.  A dict is a *)
(* function on its keys (the empty dict is <<>>); the keys of a column     *)
(* descriptor are name, type, nullable and source_type.  A transform       *)
(* object is a record of its class and its attributes.                     *)
(***************************************************************************)
MaxStages == 2

PyNone == [t |-> "none"]
PyStr(s) == [t |-> "str", s |-> s]
PyDict(d) == [t |-> "dict", d |-> d]
PyList(l) == [t |-> "list", l |-> l]
Raised == [t |-> "raised"]

\* dict.get(k, default) and d[k] = v
DictGet(d, k, default) == IF k \in DOMAIN d THEN d[k] ELSE default
DictSet(d, k, v) == (k :> v) @@ d

\* bool(v), as `x or y` and `if not x` evaluate it
Truthy(v) ==
    CASE v.t = "none" -> FALSE
      [] v.t = "str" -> v.s # ""
      [] v.t = "dict" -> DOMAIN v.d # {}
      [] v.t = "list" -> Len(v.l) > 0

\* str.lower() on one character and on a text
LowerChar(c) == IF \E k \in DOMAIN UpperOf : UpperOf[k] = c THEN CHOOSE k \in DOMAIN UpperOf : UpperOf[k] = c ELSE c

RECURSIVE StrLower(_)
StrLower(s) ==
    IF Len(s) = 0 THEN ""
    ELSE LowerChar(CharAt(s, 1)) \o StrLower(SubSeq(s, 2, Len(s)))

\* QueryTransform(base_query, destination_name)
NewQueryTransform(destination_name) ==
    [cls |-> "QueryTransform", destination_name |-> destination_name,
     original_query |-> PyNone]

\* QueryTransform._extract_destination_from_query
ExtractDestinationFromQuery(query) ==
    LET Dest(m) == IF m # None THEN StrUpper(m) ELSE QUERY_RESULT
    IN  Dest(AliasSearch(StrStrip(query)))

\* QueryTransform._estimate_complexity
EstimateComplexity(query) ==
    LET Of(u) ==
            IF StrContains(u, "JOIN") THEN "high"
            ELSE IF \E keyword \in {"GROUP BY", "ORDER BY", "HAVING"} :
                        StrContains(u, keyword)
                 THEN "medium"
                 ELSE "low"
    IN  Of(StrUpper(query))

\* QueryTransform.encode: the argument is stored first; a value that is no
\* str raises in strip() or upper()
QueryTransformEncode(self, query) ==
    [self |-> [self EXCEPT !.original_query = query], arg |-> query,
     out |-> IF query.t # "str" THEN Raised
             ELSE PyDict([query |-> query.s,
                          destination_table |->
                              IF self.destination_name \in {None, ""}
                              THEN ExtractDestinationFromQuery(query.s)
                              ELSE self.destination_name,
                          query_type |->
                              IF StrContains(query.s, "(") THEN "custom"
                              ELSE "simple",
                          estimated_complexity |->
                              EstimateComplexity(query.s)])]

\* QueryTransform.decode: metadata.get('query', self._original_query)
QueryTransformDecode(self, metadata) ==
    IF metadata.t # "dict" THEN Raised
    ELSE IF "query" \in DOMAIN metadata.d THEN PyStr(metadata.d.query)
    ELSE self.original_query

\* SchemaTransform(source_db_type, target_db_type)
NewSchemaTransform(source_db_type) ==
    [cls |-> "SchemaTransform", source_db_type |-> source_db_type]

\* SchemaTransform._build_type_mapping
BuildTypeMapping(source_db_type) ==
    IF StrLower(source_db_type) = "sqlserver"
    THEN [varchar |-> "STRING", nvarchar |-> "STRING", char |-> "STRING",
          nchar |-> "STRING", text |-> "STRING", ntext |-> "STRING",
          int |-> "INTEGER", bigint |-> "BIGINT", smallint |-> "SMALLINT",
          decimal |-> "DECIMAL", numeric |-> "DECIMAL", float |-> "FLOAT",
          real |-> "FLOAT", datetime |-> "TIMESTAMP",
          datetime2 |-> "TIMESTAMP", date |-> "DATE", time |-> "TIME",
          bit |-> "BOOLEAN"]
    ELSE <<>>

\* SchemaTransform._map_type
MapType(self, source_type) ==
    DictGet(BuildTypeMapping(self.source_db_type), StrLower(source_type), "STRING")

\* the column built by one iteration of SchemaTransform.encode
EncodeColumn(self, column) ==
    [name |-> column.name, type |-> MapType(self, column.type),
     nullable |-> DictGet(column, "nullable", TRUE),
     source_type |-> column.type]

\* a decoded column that keeps the target type
DecodeColumnTargetType(column) ==
    [name |-> column.name, type |-> column.type,
     nullable |-> DictGet(column, "nullable", TRUE)]

\* the column built by one iteration of SchemaTransform.decode
DecodeColumn(column) ==
    [name |-> column.name,
     type |-> DictGet(column, "source_type", column.type),
     nullable |-> DictGet(column, "nullable", TRUE)]

\* a value the loops of SchemaTransform iterate without raising: a list of
\* dicts that have the keys the loop body subscripts, or an empty container
IterableColumns(v, keys) ==
    /\ v.t \in {"list", "dict", "str"}
    /\ v.t = "list" => \A i \in 1..Len(v.l) : keys \subseteq DOMAIN v.l[i]
    /\ v.t = "dict" => DOMAIN v.d = {}
    /\ v.t = "str" => v.s = ""

\* SchemaTransform.encode
SchemaTransformEncode(self, source_schema) ==
    IF ~IterableColumns(source_schema, {"name", "type"}) THEN Raised
    ELSE IF source_schema.t # "list" THEN PyList(<<>>)
    ELSE PyList([i \in 1..Len(source_schema.l) |-> EncodeColumn(self, source_schema.l[i])])

\* SchemaTransform.decode
SchemaTransformDecode(self, target_schema) ==
    IF ~IterableColumns(target_schema, {"name", "type"}) THEN Raised
    ELSE IF target_schema.t # "list" THEN PyList(<<>>)
    ELSE PyList([i \in 1..Len(target_schema.l) |-> DecodeColumn(target_schema.l[i])])

\* ConnectionTransform(target_env)
NewConnectionTransform(target_env) ==
    [cls |-> "ConnectionTransform", target_env |-> target_env,
     original_config |-> PyNone]

\* an encode whose production branch sets its three values whatever the
\* map holds
OptimizeConfigOverwrite(target_env, d) ==
    IF target_env = "development"
    THEN DictSet(DictSet(DictSet(d, "fetch_size", Min(DictGet(d, "fetch_size", 1000), 100)), "max_workers", 1), "timeout", 60)
    ELSE IF target_env = "production"
    THEN DictSet(DictSet(DictSet(d, "fetch_size", 10000), "max_workers", 4), "timeout", 300)
    ELSE d

\* the development and production branches of ConnectionTransform.encode
OptimizeConfig(target_env, d) ==
    IF target_env = "development"
    THEN DictSet(DictSet(DictSet(d, "fetch_size", Min(DictGet(d, "fetch_size", 1000), 100)), "max_workers", 1), "timeout", 60)
    ELSE IF target_env = "production"
    THEN DictSet(DictSet(DictSet(d, "fetch_size", DictGet(d, "fetch_size", 10000)), "max_workers", DictGet(d, "max_workers", 4)), "timeout", DictGet(d, "timeout", 300))
    ELSE d

\* ConnectionTransform.encode: config.copy() raises for a str before the
\* snapshot is stored; a list is copied and stored, and raises in .get()
\* when the environment has a branch.  Both branches work on a second
\* copy, so arg, the caller's object after the call, is the argument
ConnectionTransformEncode(self, cfg) ==
    IF cfg.t \notin {"dict", "list"} THEN [self |-> self, arg |-> cfg, out |-> Raised]
    ELSE [self |-> [self EXCEPT !.original_config = cfg], arg |-> cfg,
          out |-> IF cfg.t = "dict"
                  THEN PyDict(OptimizeConfig(self.target_env, cfg.d))
                  ELSE IF self.target_env \in {"development", "production"}
                       THEN Raised
                       ELSE cfg]

\* ConnectionTransform.decode: self._original_config or cfg
ConnectionTransformDecode(self, cfg) ==
    IF Truthy(self.original_config) THEN self.original_config ELSE cfg

\* transform.encode(x): the transform after the call, the value returned
\* and the caller's argument after the call
TransformEncode(self, x) ==
    CASE self.cls = "QueryTransform" -> QueryTransformEncode(self, x)
      [] self.cls = "SchemaTransform" -> [self |-> self, arg |-> x, out |-> SchemaTransformEncode(self, x)]
      [] self.cls = "ConnectionTransform" -> ConnectionTransformEncode(self, x)

\* transform.decode(x)
TransformDecode(self, x) ==
    CASE self.cls = "QueryTransform" -> QueryTransformDecode(self, x)
      [] self.cls = "SchemaTransform" -> SchemaTransformDecode(self, x)
      [] self.cls = "ConnectionTransform" -> ConnectionTransformDecode(self, x)

\* the loop of Pipeline.encode from stage i on: result is the value so far;
\* an exception ends the loop
RECURSIVE PipelineEncodeFrom(_, _, _)
PipelineEncodeFrom(i, result, transforms) ==
    IF i > Len(transforms) \/ result.t = "raised"
    THEN [out |-> result, transforms |-> transforms]
    ELSE LET Step(e) == PipelineEncodeFrom(i + 1, e.out, [transforms EXCEPT ![i] = e.self])
         IN  Step(TransformEncode(transforms[i], result))

\* Pipeline.encode
PipelineEncode(transforms, x) == PipelineEncodeFrom(1, x, transforms)

\* the loop of Pipeline.decode over reversed(self.transforms), at stage i
RECURSIVE PipelineDecodeFrom(_, _, _)
PipelineDecodeFrom(i, result, transforms) ==
    IF i < 1 \/ result.t = "raised" THEN result
    ELSE PipelineDecodeFrom(i - 1, TransformDecode(transforms[i], result), transforms)

\* a decode loop that visits the stages first to last
RECURSIVE PipelineDecodeForwardFrom(_, _, _)
PipelineDecodeForwardFrom(i, result, transforms) ==
    IF i > Len(transforms) \/ result.t = "raised" THEN result
    ELSE PipelineDecodeForwardFrom(i + 1, TransformDecode(transforms[i], result), transforms)

PipelineDecodeForward(transforms, x) == PipelineDecodeForwardFrom(1, x, transforms)

\* Pipeline.decode
PipelineDecode(transforms, x) == PipelineDecodeFrom(Len(transforms), x, transforms)

\* Pipeline.add_transform
AddTransform(transforms, transform) == Append(transforms, transform)

(***************************************************************************)
(* Inputs of the transform calls.                                          *)
(***************************************************************************)
QueryTexts == {"(select 1) AS q1", "SELECT a FROM t JOIN u", ""}

ColumnLists ==
    {<<>>,
     <<[name |-> "ID", type |-> "int", nullable |-> FALSE]>>,
     <<[name |-> "GEO", type |-> "Geography"],
       [name |-> "ID", type |-> "INT", nullable |-> TRUE]>>}

ParameterMaps ==
    {<<>>,
     [fetch_size |-> 5000],
     [fetch_size |-> 50, max_workers |-> 8, timeout |-> 10, host |-> "h1"]}

PyValues ==
    {PyStr(q) : q \in QueryTexts} \cup {PyList(l) : l \in ColumnLists}
        \cup {PyDict(p) : p \in ParameterMaps}

Environments == {"development", "production", "staging"}

NewTransforms ==
    {NewQueryTransform(None), NewQueryTransform("D1"),
     NewSchemaTransform("sqlserver"), NewSchemaTransform("PostgreSQL")}
        \cup {NewConnectionTransform(env) : env \in Environments}

(***************************************************************************)
(* config.py: ConfigManager.load_config.  The configuration data is a dict *)
(* of groups (source_db, snowflake, transfer), each a dict of fields, plus *)
(* database_type; env is the process environment, a dict of the variables  *)
(* that are set.  Of the source database's fields the model keeps those of *)
(* DatabaseConfig, of the transfer's fields those without the partitioning *)
(* options.  The result is [ok, config]: ok is false when a constructor    *)
(* raised.                                                                 *)
(***************************************************************************)
\* os.getenv(env_var), with None read as the empty text: both are falsy
Getenv(env, env_var) == IF env_var \in DOMAIN env THEN env[env_var] ELSE ""

\* the (key, env_var) lists of _load_from_env
SourceEnvVars == [host |-> "SOURCE_HOST", port |-> "SOURCE_PORT", username |-> "SOURCE_USERNAME", password |-> "SOURCE_PASSWORD", database |-> "SOURCE_DATABASE"]
SnowflakeEnvVars == [account |-> "SNOWFLAKE_ACCOUNT", user |-> "SNOWFLAKE_USER", password |-> "SNOWFLAKE_PASSWORD", role |-> "SNOWFLAKE_ROLE", warehouse |-> "SNOWFLAKE_WAREHOUSE", database |-> "SNOWFLAKE_DATABASE", schema |-> "SNOWFLAKE_SCHEMA"]
TransferEnvVars == [source_table |-> "SOURCE_TABLE", destination_table |-> "DESTINATION_TABLE", batch_size |-> "BATCH_SIZE", max_workers |-> "MAX_WORKERS", fetch_size |-> "FETCH_SIZE", mode |-> "TRANSFER_MODE"]

\* the keys _load_from_env converts with int()
IntKeys == {"port", "batch_size", "max_workers", "fetch_size", "num_partitions"}

\* one loop of _load_from_env: the keys whose variable is set and not empty
EnvGroup(env, env_vars) ==
    [key \in {k \in DOMAIN env_vars : Getenv(env, env_vars[k]) # ""} |->
        IF key \in IntKeys THEN StrToInt(env[env_vars[key]])
        ELSE env[env_vars[key]]]

\* config[name] = group, when the group is not empty
GroupEntry(name, group) == IF DOMAIN group # {} THEN (name :> group) ELSE <<>>

\* ConfigManager._load_from_env
LoadFromEnv(env) ==
    (IF Getenv(env, "DB_TYPE") # "" THEN [database_type |-> env["DB_TYPE"]] ELSE <<>>)
        @@ GroupEntry("source_db", EnvGroup(env, SourceEnvVars))
        @@ GroupEntry("snowflake", EnvGroup(env, SnowflakeEnvVars))
        @@ GroupEntry("transfer", EnvGroup(env, TransferEnvVars))

\* dict.update(other): the entries of other replace those of d
DictUpdate(d, other) == other @@ d

\* the dataclass defaults, by database type
DefaultPort == [sqlserver |-> 1433, postgresql |-> 5432, mysql |-> 3306, oracle |-> 1521]
SourceDefaults(db_type) == [host |-> "", port |-> DefaultPort[db_type], username |-> "", password |-> "", database |-> ""]
SnowflakeDefaults == [account |-> "", user |-> "", password |-> "", role |-> "", warehouse |-> "", database |-> "", schema |-> "PUBLIC"]
TransferDefaults == [source_table |-> "", destination_table |-> "", batch_size |-> 10000, max_workers |-> 4, fetch_size |-> 1000, query_timeout |-> 300, mode |-> "overwrite"]

\* TransferConfig.__post_init__ on the fields given: the destination
\* defaults to the source table
TransferPostInit(transfer) ==
    IF transfer.destination_table = ""
    THEN [transfer EXCEPT !.destination_table = transfer.source_table]
    ELSE transfer

\* the three __post_init__ checks and the DatabaseType and dataclass
\* constructors accept the data
ConfigAccepted(db_type, source_db, snowflake, transfer) ==
    /\ db_type \in DOMAIN DefaultPort
    /\ DOMAIN source_db \subseteq DOMAIN SourceEnvVars
    /\ \A k \in {"host", "username", "password"} : source_db[k] # ""
    /\ \A k \in {"account", "user", "password", "warehouse"} : snowflake[k] # ""
    /\ transfer.source_table # ""
    /\ transfer.mode \in {"overwrite", "append", "error"}

\* ConfigManager._create_config
CreateConfig(config_data) ==
    LET Build(db_type, source_data, snowflake_data, transfer_data) ==
            IF db_type \notin DOMAIN DefaultPort THEN [ok |-> FALSE]
            ELSE LET Made(source_db, snowflake, transfer) ==
                         IF ~ConfigAccepted(db_type, source_db, snowflake, transfer)
                         THEN [ok |-> FALSE]
                         ELSE [ok |-> TRUE,
                               config |-> [database_type |-> db_type, source_db |-> source_db,
                                           snowflake |-> snowflake,
                                           transfer |-> TransferPostInit(transfer)]]
                 IN  Made(source_data @@ SourceDefaults(db_type), snowflake_data @@ SnowflakeDefaults, transfer_data @@ TransferDefaults)
    IN  Build(DictGet(config_data, "database_type", "sqlserver"), DictGet(config_data, "source_db", <<>>), DictGet(config_data, "snowflake", <<>>), DictGet(config_data, "transfer", <<>>))

\* ConfigManager.load_config(config_file): file_data is what the file holds
\* ({} without a file)
LoadConfig(file_data, env) == CreateConfig(DictUpdate(file_data, LoadFromEnv(env)))

\* inputs: what the file holds and what the environment sets
FileSource == [host |-> "filehost", username |-> "fu", password |-> "fp", database |-> "FILESRC"]
FileSnowflake == [account |-> "facct", user |-> "fuser", password |-> "fpw", warehouse |-> "FWH", database |-> "FILEDB"]
EnvCredentials == [SOURCE_HOST |-> "envhost", SOURCE_USERNAME |-> "eu", SOURCE_PASSWORD |-> "ep", SNOWFLAKE_ACCOUNT |-> "eacct", SNOWFLAKE_USER |-> "euser", SNOWFLAKE_PASSWORD |-> "epw", SNOWFLAKE_WAREHOUSE |-> "EWH"]

ConfigFiles ==
    {<<>>,
     [source_db |-> FileSource, snowflake |-> FileSnowflake, transfer |-> [source_table |-> "dbo.file_table"]],
     [database_type |-> "postgresql", source_db |-> FileSource, snowflake |-> FileSnowflake,
      transfer |-> [source_table |-> "dbo.file_table", destination_table |-> "FILE_DEST", mode |-> "append", fetch_size |-> 500]]}

ProcessEnvironments ==
    {e1 @@ e2 : e1 \in {<<>>, EnvCredentials, [SNOWFLAKE_DATABASE |-> "ENVDB"], [SOURCE_PORT |-> "15"] @@ EnvCredentials},
                e2 \in {<<>>, [FETCH_SIZE |-> "250", TRANSFER_MODE |-> ""],
                        [SOURCE_TABLE |-> "dbo.env_table", DB_TYPE |-> "mysql", TRANSFER_MODE |-> "error"]}}

(***************************************************************************)
(* core.py schema inference: the loop of _get_query_schema over            *)
(* cursor.description and _map_sql_type_to_snowpark.  A column of the      *)
(* description is <<name, type code>> (col[0], col[1]); a Snowpark type is *)
(* a record naming its class, a StructType the sequence of its fields.     *)
(***************************************************************************)
StringType == [type |-> "StringType"]
IntegerType == [type |-> "IntegerType"]
DoubleType == [type |-> "DoubleType"]
BooleanType == [type |-> "BooleanType"]
DateType == [type |-> "DateType"]
TimestampType == [type |-> "TimestampType"]
DecimalType(precision, scale) == [type |-> "DecimalType", precision |-> precision, scale |-> scale]

\* type_mapping of _map_sql_type_to_snowpark
TypeMapping ==
    (1 :> StringType) @@ (12 :> StringType) @@ (-1 :> StringType) @@ (-9 :> StringType)
        @@ (4 :> IntegerType) @@ (-5 :> IntegerType) @@ (5 :> IntegerType) @@ (-6 :> IntegerType)
        @@ (6 :> DoubleType) @@ (8 :> DoubleType)
        @@ (2 :> DecimalType(18, 2)) @@ (3 :> DecimalType(18, 2))
        @@ (91 :> DateType) @@ (93 :> TimestampType)
        @@ (16 :> BooleanType)

\* a mapping that looks the code up without a default
MapSqlTypeToSnowparkNoDefault(sql_type_code) ==
    IF sql_type_code \in DOMAIN TypeMapping THEN TypeMapping[sql_type_code]
    ELSE [type |-> "KeyError"]

\* DataTransfer._map_sql_type_to_snowpark: type_mapping.get(code, StringType())
MapSqlTypeToSnowpark(sql_type_code) ==
    IF sql_type_code \in DOMAIN TypeMapping THEN TypeMapping[sql_type_code]
    ELSE StringType

\* StructField(col_name, snowpark_type)
StructField(col_name, snowpark_type) == [name |-> col_name, datatype |-> snowpark_type]

\* the loop of _get_query_schema over columns = cursor.description
StructTypeOf(columns) ==
    [i \in 1..Len(columns) |-> StructField(columns[i][1], MapSqlTypeToSnowpark(columns[i][2]))]

\* the type codes a driver reports: those of the mapping, in the order of
\* the source, and others
KnownCodes == <<1, 12, -1, -9, 4, -5, 5, -6, 6, 8, 2, 3, 91, 93, 16>>
OtherCodes == <<0, 7, -7, 92, 2004>>

\* a description with one column per code, named by its position
OneColumnPerCode(codes) == [i \in 1..Len(codes) |-> <<"C" \o IntToStr(i), codes[i]>>]

\* the descriptions of the probed cursor: no column, a column of each
\* code, columns whose names are not in alphabetical order, a repeated name
Descriptions ==
    {<<>>, OneColumnPerCode(KnownCodes), OneColumnPerCode(OtherCodes),
     <<<<"ZIP", 12>>, <<"ID", 4>>, <<"AMOUNT", 3>>>>,
     <<<<"ID", -5>>, <<"ID", 2004>>>>}

(***************************************************************************)
(* The library: a Pipeline and the calls a client makes on it    *)
(* and on its stages (pipeline.transforms[i]).                             *)
(*   pipeline   Pipeline.transforms                                        *)
(*   tcall      the library call that has just returned                    *)
(* and ConfigManager.load_config, which reads a file and the environment.   *)
(***************************************************************************)
InitLibrary ==
    /\ dbs = {}
    /\ schemas = {}
    /\ tier = "low"
    /\ config = EnvConfig(FALSE, TRUE)
    /\ Fresh

\* the values a client passes to decode, besides what encode returned
DecodeProbes == {PyDict([fetch_size |-> 5000]), PyList(<<>>)}

\* pipeline.add_transform(transform)
CallAddTransform ==
    /\ tcall.op = "idle"
    /\ Len(pipeline) < MaxStages
    /\ \E transform \in NewTransforms :
          /\ pipeline' = AddTransform(pipeline, transform)
          /\ tcall' = [op |-> "add_transform", transform |-> transform, before |-> pipeline]
    /\ UNCHANGED <<facadeVars, engineVars>>

\* pipeline.encode(x)
CallPipelineEncode ==
    /\ tcall.op = "idle"
    /\ \E x \in PyValues :
          LET Done(r) ==
                  /\ pipeline' = r.transforms
                  /\ tcall' = [op |-> "Pipeline.encode", x |-> x, out |-> r.out]
          IN  Done(PipelineEncode(pipeline, x))
    /\ UNCHANGED <<facadeVars, engineVars>>

\* pipeline.decode(y)
CallPipelineDecode ==
    /\ tcall.op = "idle"
    /\ \E y \in PyValues :
          tcall' = [op |-> "Pipeline.decode", x |-> y, out |-> PipelineDecode(pipeline, y)]
    /\ UNCHANGED pipeline
    /\ UNCHANGED <<facadeVars, engineVars>>

\* t = pipeline.transforms[i]; m = t.encode(x); t.decode(m) or t.decode(y):
\* the value decoded is what encode returned (when it returned) or a value
\* of the client's
CallEncodeDecode ==
    /\ tcall.op = "idle"
    /\ \E i \in 1..Len(pipeline), x \in PyValues :
          LET Done(e) ==
                  /\ pipeline' = [pipeline EXCEPT ![i] = e.self]
                  /\ \E y \in DecodeProbes \cup ({e.out} \ {Raised}) :
                        tcall' = [op |-> "encode;decode", stage |-> i, x |-> x, arg |-> e.arg, encoded |-> e.out, y |-> y,
                                  out |-> TransformDecode(e.self, y)]
          IN  Done(TransformEncode(pipeline[i], x))
    /\ UNCHANGED <<facadeVars, engineVars>>

\* ConfigManager().load_config(config_file)
CallLoadConfig ==
    /\ tcall.op = "idle"
    /\ \E file_data \in ConfigFiles, env \in ProcessEnvironments :
          tcall' = [op |-> "load_config", file |-> file_data, env |-> env, out |-> LoadConfig(file_data, env)]
    /\ UNCHANGED pipeline
    /\ UNCHANGED <<facadeVars, engineVars>>

\* the schema _get_query_schema builds from the description of its cursor
CallGetQuerySchema ==
    /\ tcall.op = "idle"
    /\ \E columns \in Descriptions :
          tcall' = [op |-> "_get_query_schema", columns |-> columns, out |-> StructTypeOf(columns)]
    /\ UNCHANGED pipeline
    /\ UNCHANGED <<facadeVars, engineVars>>

\* the client goes on to its next call
ReturnLibrary ==
    /\ tcall.op # "idle"
    /\ tcall' = Idle
    /\ UNCHANGED pipeline
    /\ UNCHANGED <<facadeVars, engineVars>>

NextLibrary ==
    \/ CallAddTransform
    \/ CallPipelineEncode
    \/ CallPipelineDecode
    \/ CallEncodeDecode
    \/ CallLoadConfig
    \/ CallGetQuerySchema
    \/ ReturnLibrary

SpecLibrary == InitLibrary /\ [][NextLibrary]_vars

(***************************************************************************)
(* Properties of the facade (SpecFacade).                                  *)
(***************************************************************************)
LastOf(seq) == seq[Len(seq)]

\* a call of transfer or transfer_sample has just returned
IsTransferCall == call.op \in {"transfer", "transfer_sample"}

\* a call that went through core.transfer_data has just returned, and its
\* configuration was loaded
RanTransferData ==
    /\ call.op \in {"transfer", "transfer_sample", "transfer_data"}
    /\ "get_config" \notin call.faults

\* C1: transfer() returns a boolean and no exception escapes it, whatever
\* the input text, the overrides and the failure; it returns false whenever
\* configuration loading, connection setup, the source read or the
\* destination write fails.
C1_TransferReportsFailure ==
    IsTransferCall =>
        /\ call.out.result \in BOOLEAN
        /\ ~call.out.raised
        /\ ("get_config" \in call.faults => ~call.out.result)
        /\ (~call.out.setup => ~call.out.result)
        /\ (call.out.reads = <<>> \/ ~LastOf(call.out.reads).ok
               => ~call.out.result)
        /\ (call.out.writes = <<>> \/ ~call.out.writes[1].ok
               => ~call.out.result)

\* transfer() was called while the configuration could not be loaded
C1_Witness ==
    /\ call.op = "transfer"
    /\ "get_config" \in call.faults
    /\ ~call.out.result

\* the call overrides the warehouse database
HasDatabaseOverride(a) ==
    \/ a.snowflake_database \notin {None, ""}
    \/ /\ "database" \in DOMAIN a.config_overrides
       /\ a.config_overrides["database"] # ""

\* the call says nothing about create_db_if_missing
NoExplicitCreate(a) ==
    /\ a.create_db_if_missing = <<>>
    /\ "create_db_if_missing" \notin DOMAIN a.config_overrides

\* C3 as stated: with a database override (argument or `database` key of
\* config_overrides) and no explicit create_if_missing, the merged
\* configuration has create_if_missing = false.
C3_DatabaseOverrideDisablesCreate ==
    (/\ IsTransferCall
     /\ "get_config" \notin call.faults
     /\ HasDatabaseOverride(call.args)
     /\ NoExplicitCreate(call.args))
        => ~call.out.cfg.snowflake.create_db_if_missing

\* the configured database, or the configured schema in it, did not exist
\* when the call started
TargetMissing ==
    LET sf == call.out.cfg.snowflake
    IN  /\ sf.database # ""
        /\ \/ sf.database \notin call.dbs0
           \/ /\ sf.db_schema # ""
              /\ <<sf.database, sf.db_schema>> \notin call.schemas0

\* C4: when the effective create_if_missing is false, no CREATE DATABASE or
\* CREATE SCHEMA statement is issued and nothing is created; if the
\* configured database or schema is missing, connection setup fails, the
\* transfer returns false and no write is issued.
C4_NoSilentCreation ==
    (RanTransferData /\ ~call.out.cfg.snowflake.create_db_if_missing) =>
        /\ \A i \in DOMAIN call.out.stmts :
               call.out.stmts[i][1] \notin {"CREATE DATABASE", "CREATE SCHEMA"}
        /\ call.out.dbs = call.dbs0
        /\ call.out.schemas = call.schemas0
        /\ TargetMissing =>
               /\ ~call.out.setup
               /\ ~call.out.result
               /\ call.out.writes = <<>>

\* transfer(snowflake_database="OTHER_DB") was called without a
\* create_db_if_missing, nothing else failed, and OTHER_DB was missing
C4_Witness ==
    /\ call.op = "transfer"
    /\ call.args.snowflake_database = "OTHER_DB"
    /\ call.args.create_db_if_missing = <<>>
    /\ call.base.snowflake.create_db_if_missing
    /\ call.faults = {}
    /\ "OTHER_DB" \notin call.dbs0
    /\ ~call.out.result

\* C5 as stated: every source read that transfer_sample(t, rows) issues is
\* capped at rows, and at most rows rows are written.
C5_SampleIsCapped ==
    call.op = "transfer_sample" =>
        /\ \A i \in DOMAIN call.out.reads :
               call.out.reads[i].rows <= call.limit
        /\ \A i \in DOMAIN call.out.writes :
               call.out.writes[i].rows <= call.limit

\* the positions where a final run of word characters starts that is
\* preceded by ')', whitespace, AS in any case, and whitespace
AliasStarts(s) ==
    {a \in 1..Len(s) :
        /\ \A k \in a..Len(s) : IsWordChar(CharAt(s, k))
        /\ \E c \in 1..Len(s), b \in 1..Len(s) :
              /\ CharAt(s, c) = ")"
              /\ c + 1 < b
              /\ \A k \in (c + 1)..(b - 1) : IsSpace(CharAt(s, k))
              /\ b + 2 < a
              /\ StrUpper(SubSeq(s, b, b + 1)) = "AS"
              /\ \A k \in (b + 2)..(a - 1) : IsSpace(CharAt(s, k))}

\* the destination the rule gives for the trimmed text s
ExpectedQueryDestination(s) ==
    IF AliasStarts(s) = {} THEN "QUERY_RESULT"
    ELSE LET a == CHOOSE a \in AliasStarts(s) : TRUE
         IN  StrUpper(SubSeq(s, a, Len(s)))

\* C6: a query whose trimmed text ends in `) AS alias` (any case) has the
\* destination alias upper-cased, any other query has "QUERY_RESULT"; both
\* for _derive_destination and for transfer_data's own derivation.
C6_QueryDestination ==
    /\ (call.op = "_derive_destination" /\ IsQuery(call.source))
           => call.derived = ExpectedQueryDestination(StrStrip(call.source))
    /\ (call.op = "transfer_data" /\ call.source # None
            /\ call.destination = "")
           => call.out.cfg.transfer.destination_table
                  = ExpectedQueryDestination(StrStrip(call.source))

\* _derive_destination returned the upper-cased alias of a query whose
\* alias is not written in upper case
C6_Witness ==
    /\ call.op = "_derive_destination"
    /\ IsQuery(call.source)
    /\ AliasStarts(StrStrip(call.source)) # {}
    /\ call.derived # "QUERY_RESULT"
    /\ \A a \in AliasStarts(StrStrip(call.source)) :
           call.derived # SubSeq(StrStrip(call.source), a,
                                 Len(StrStrip(call.source)))

\* t is a table identifier with a schema prefix and a table name after it
HasSchemaPrefix(t) ==
    /\ ~IsQuery(t)
    /\ \E i \in 1..(Len(t) - 1) : CharAt(t, i) = "."
    /\ CharAt(t, Len(t)) # "."

\* the part of t after its last '.'
LastPart(t) ==
    LET a == CHOOSE a \in 2..Len(t) :
                 /\ CharAt(t, a - 1) = "."
                 /\ \A k \in a..Len(t) : CharAt(t, k) # "."
    IN  SubSeq(t, a, Len(t))

\* C7: for a table identifier with a schema prefix the derived destination
\* is the part after the last '.', upper-cased, and the high-level table
\* transfer without a destination writes to exactly that name.
C7_TableDestination ==
    /\ (call.op = "_derive_destination" /\ HasSchemaPrefix(call.source))
           => call.derived = StrUpper(LastPart(call.source))
    /\ (IsTransferCall /\ HasSchemaPrefix(call.source)
            /\ call.destination = None)
           => \A i \in DOMAIN call.out.writes :
                  call.out.writes[i].table = StrUpper(LastPart(call.source))

\* a table with a two-part prefix was transferred with a row limit and no
\* destination, and the write was issued
C7_Witness ==
    /\ call.op = "transfer"
    /\ call.source = "a.b.Orders"
    /\ call.destination = None
    /\ call.limit # 0
    /\ call.out.writes # <<>>
    /\ call.out.writes[1].table = "ORDERS"

(***************************************************************************)
(* Properties of the engine (Spec).                                        *)
(***************************************************************************)
\* the source read of the call that has just returned succeeded
ReadSucceeded ==
    /\ last.reads # <<>>
    /\ LastOf(last.reads).kind \in {"table", "query"}
    /\ LastOf(last.reads).ok

C8_FailedSetupLeavesUnconnected ==
    (last.op = "setup_connections" /\ ~last.result) =>
        /\ ~last.raised
        /\ engine.source_connection = None
        /\ engine.snowflake_connection = NoSession
        /\ engine.session = NoSession

\* C9: cleanup() never raises, leaves the engine's fields as they were, and
\* a cleanup that follows a cleanup changes nothing at all (DataTransfer,
\* LowLevelTransferEngine.cleanup_raw_connections, ConnectionManager.close).
C9_CleanupIdempotent ==
    last.op \in {"cleanup", "close"} =>
        /\ ~last.raised
        /\ engine = last.engine0
        /\ manager = last.manager0
        /\ last.prev = last.op => sess = last.sess0

\* a connected engine was cleaned up twice in a row, and Session.close
\* raised in the second
C9_Witness ==
    /\ last.op = "cleanup"
    /\ last.prev = "cleanup"
    /\ engine.session # NoSession
    /\ sess[engine.session] = "closed"
    /\ "close" \in last.faults

\* C10 as stated: a source read or a destination write is issued only while
\* the engine is Connected (the most recent setup succeeded and no cleanup
\* has happened since).
C10_ReadsOnlyWhileConnected ==
    (last.op \in {"transfer_table", "execute_raw_query", "execute_transfer"}
        /\ (last.reads # <<>> \/ last.writes # <<>>))
        => last.connected0

(***************************************************************************)
(* Properties of the transform library (SpecLibrary).                    *)
(***************************************************************************)
\* one stage applied to the value v of the previous stage; an exception of
\* the previous stage propagates
StageEncode(i, v) == IF v.t = "raised" THEN Raised ELSE TransformEncode(pipeline[i], v).out
StageDecode(i, v) == IF v.t = "raised" THEN Raised ELSE TransformDecode(pipeline[i], v)

\* C11: Pipeline.encode(x) is Tn.encode(...T1.encode(x)) and
\* Pipeline.decode(y) is T1.decode(...Tn.decode(y)) for the pipeline
\* [T1..Tn]; the empty pipeline returns its argument in both directions,
\* and add_transform puts the new stage after the stages already there.
C11_PipelineComposition ==
    /\ tcall.op = "Pipeline.encode" =>
          tcall.out = CASE Len(pipeline) = 0 -> tcall.x
                        [] Len(pipeline) = 1 -> StageEncode(1, tcall.x)
                        [] Len(pipeline) = 2 -> StageEncode(2, StageEncode(1, tcall.x))
                        [] Len(pipeline) = 3 -> StageEncode(3, StageEncode(2, StageEncode(1, tcall.x)))
                        [] OTHER -> tcall.out
    /\ tcall.op = "Pipeline.decode" =>
          tcall.out = CASE Len(pipeline) = 0 -> tcall.x
                        [] Len(pipeline) = 1 -> StageDecode(1, tcall.x)
                        [] Len(pipeline) = 2 -> StageDecode(1, StageDecode(2, tcall.x))
                        [] Len(pipeline) = 3 -> StageDecode(1, StageDecode(2, StageDecode(3, tcall.x)))
                        [] OTHER -> tcall.out
    /\ tcall.op = "add_transform" =>
          /\ Len(pipeline) = Len(tcall.before) + 1
          /\ pipeline[Len(pipeline)] = tcall.transform
          /\ \A i \in 1..Len(tcall.before) : pipeline[i] = tcall.before[i]

\* a decode through two stages whose order matters: the first stage
\* returns its stored snapshot, not what the second stage handed it
C11_Witness ==
    /\ tcall.op = "Pipeline.decode"
    /\ Len(pipeline) = 2
    /\ tcall.out.t # "raised"
    /\ tcall.out # tcall.x
    /\ tcall.out # TransformDecode(pipeline[2], tcall.x)

\* a stage has just encoded tcall.x and decoded what encode returned
IsRoundTrip(cls) ==
    /\ tcall.op = "encode;decode"
    /\ pipeline[tcall.stage].cls = cls
    /\ tcall.encoded.t # "raised"
    /\ tcall.y = tcall.encoded

\* C12: decoding what encode returned gives back the input: the same text
\* for a QueryTransform and every SQL text; for a SchemaTransform a column
\* list of the same length and order in which every column has the name,
\* the type and the nullable flag of the original column (true when the
\* original has none).
C12_RoundTrip ==
    /\ IsRoundTrip("QueryTransform") /\ tcall.x.t = "str" => tcall.out = tcall.x
    /\ IsRoundTrip("SchemaTransform") /\ tcall.x.t = "list" =>
          /\ tcall.out.t = "list"
          /\ Len(tcall.out.l) = Len(tcall.x.l)
          /\ \A i \in 1..Len(tcall.x.l) :
                /\ tcall.out.l[i].name = tcall.x.l[i].name
                /\ tcall.out.l[i].type = tcall.x.l[i].type
                /\ tcall.out.l[i].nullable = (IF "nullable" \in DOMAIN tcall.x.l[i] THEN tcall.x.l[i].nullable ELSE TRUE)

\* a schema round trip of two columns, one without a nullable flag, whose
\* types the encoding changed
C12_Witness ==
    /\ IsRoundTrip("SchemaTransform")
    /\ tcall.x.t = "list"
    /\ Len(tcall.x.l) = 2
    /\ \E i \in 1..2 : "nullable" \notin DOMAIN tcall.x.l[i]
    /\ \A i \in 1..2 : tcall.encoded.l[i].type # tcall.x.l[i].type

\* C13: after ConnectionTransform.encode(p) with a parameter map p (the
\* empty map included), in every environment and whatever the transform
\* encoded before, decode(y) returns a map equal to p for every y.
C13_DecodeReturnsSnapshot ==
    /\ tcall.op = "encode;decode"
    /\ pipeline[tcall.stage].cls = "ConnectionTransform"
    /\ tcall.x.t = "dict"
    => tcall.out = tcall.x

\* the value the precedence rule gives each field of a group: the
\* environment's if it sets the field's variable, else the file's if the
\* file has the field, else the default
ExpectedGroup(file_data, env, name, env_vars, defaults) ==
    [k \in DOMAIN defaults |->
        IF k \in DOMAIN env_vars /\ Getenv(env, env_vars[k]) # ""
        THEN (IF k \in IntKeys THEN StrToInt(env[env_vars[k]]) ELSE env[env_vars[k]])
        ELSE IF name \in DOMAIN file_data /\ k \in DOMAIN file_data[name]
             THEN file_data[name][k]
             ELSE defaults[k]]

ExpectedDatabaseType(file_data, env) ==
    IF Getenv(env, "DB_TYPE") # "" THEN env["DB_TYPE"]
    ELSE DictGet(file_data, "database_type", "sqlserver")

\* the configuration the precedence rule gives for tcall.file and tcall.env
ExpectedConfig ==
    LET Of(db_type) ==
            [database_type |-> db_type,
             source_db |-> ExpectedGroup(tcall.file, tcall.env, "source_db", SourceEnvVars, SourceDefaults(db_type)),
             snowflake |-> ExpectedGroup(tcall.file, tcall.env, "snowflake", SnowflakeEnvVars, SnowflakeDefaults),
             transfer |-> TransferPostInit(ExpectedGroup(tcall.file, tcall.env, "transfer", TransferEnvVars, TransferDefaults))]
    IN  Of(ExpectedDatabaseType(tcall.file, tcall.env))

\* C15: when load_config reads a file and the environment, every field of
\* the configuration it returns has the environment's value if the
\* environment supplies the field, else the file's value if the file
\* supplies it, else the default; whenever these values make a valid
\* configuration, load_config returns it.
C15_EnvOverFileOverDefault ==
    tcall.op = "load_config" =>
        LET Agrees(e) ==
                ConfigAccepted(e.database_type, e.source_db, e.snowflake, e.transfer)
                    => tcall.out.ok /\ tcall.out.config = e
        IN  Agrees(ExpectedConfig)

(***************************************************************************)
(* Further properties of the facade (SpecFacade).                          *)
(***************************************************************************)
\* C14: every write the engine issues during a call carries a mode that is
\* one of overwrite, append, error, however the configuration of the call
\* was built.
C14_WriteModeEnumerated ==
    RanTransferData =>
        \A i \in 1..Len(call.out.writes) :
            call.out.writes[i].mode \in {"overwrite", "append", "error"}

\* C17: transfer_with_validation calls transfer() at most once, and only
\* when the pre-transfer validation is valid; transfer_success is what that
\* call returned (false without a call), and post_transfer is filled in
\* exactly when the call returned true.
C17_ValidatedTransfer ==
    call.op = "transfer_with_validation" =>
        LET r == call.validated.validation_results
            ran == call.validated.transfers
        IN  /\ Len(ran) <= 1
            /\ Len(ran) = 1 <=> r.pre_transfer.valid
            /\ r.transfer_success = (Len(ran) = 1 /\ ran[1].result)
            /\ (r.post_transfer # <<>>) <=> (Len(ran) = 1 /\ ran[1].result)

\* a validated transfer whose transfer read the source and failed at the
\* write
C17_Witness ==
    /\ call.op = "transfer_with_validation"
    /\ Len(call.validated.transfers) = 1
    /\ call.validated.transfers[1].reads # <<>>
    /\ ~call.validated.validation_results.transfer_success
    /\ call.validated.validation_results.post_transfer = <<>>

\* C20: when a call that went through transfer_data has returned, no
\* warehouse session created during the call is still open, whichever way
\* the call ended.
C20_NoSessionLeftOpen ==
    RanTransferData =>
        \A i \in 1..Len(call.out.sess) : call.out.sess[i] = "closed"

(***************************************************************************)
(* Further properties of the engine (Spec).                                *)
(***************************************************************************)
\* C16: test_connections never raises, in any manager state, and returns
\* one boolean per target: the source entry is true exactly when the source
\* probe works (there is a factory and its SELECT 1 does not fail), the
\* warehouse entry exactly when the warehouse probe works (there is an open
\* session and its SELECT 1 does not fail), each whatever the other does.
C16_TestConnectionsIndependent ==
    last.op = "test_connections" =>
        /\ ~last.raised
        /\ DOMAIN last.result = {"source_db", "snowflake"}
        /\ last.result.source_db =
              (manager[1].source_connection # None /\ "query" \notin last.faults)
        /\ last.result.snowflake =
              (/\ manager[1].session # NoSession
               /\ sess[manager[1].session] = "open"
               /\ "sql" \notin last.faults)

\* the source probe failed on a manager whose session was closed before and
\* replaced by no new one, or the source probe failed and the warehouse
\* probe succeeded
C16_Witness ==
    /\ last.op = "test_connections"
    /\ last.manager0 # <<>>
    /\ "query" \in last.faults
    /\ ~last.result.source_db
    /\ last.result.snowflake

\* the call that has just returned is a transfer or a DataFrame creation,
\* on an engine that had a session
IsReadingCall ==
    /\ last.op \in {"transfer_table", "execute_transfer", "create_snowpark_dataframe"}
    /\ IF last.op = "execute_transfer"
       THEN last.manager0 # <<>> /\ last.manager0[1].session # NoSession
       ELSE last.engine0.session # NoSession
    /\ last.op = "create_snowpark_dataframe" => last.reads # <<>>

\* the call's source is a table name
ReadsTable ==
    \/ last.op = "transfer_table" /\ last.query = None
    \/ last.op = "execute_transfer" /\ ~IsQuery(last.query)
    \/ last.op = "create_snowpark_dataframe" /\ last.reads[1].kind = "table"

\* the transfer or the DataFrame creation failed
ReadingCallFailed == IF last.op = "create_snowpark_dataframe" THEN last.raised ELSE ~last.result

\* C18: a table is read in exactly one attempt.  A query is read in at
\* most two: the first without a schema of the code's; a probe follows only
\* a failed first attempt, and a second attempt only a successful probe,
\* with the probed schema and the same query; a failed probe or a failed
\* second attempt ends the call as failed, with nothing attempted after.
C18_SingleAttemptThenFallback ==
    IsReadingCall =>
        /\ ReadsTable =>
              /\ Len(last.reads) = 1
              /\ last.reads[1].kind = "table"
        /\ ~ReadsTable =>
              /\ Len(last.reads) \in 1..3
              /\ last.reads[1].kind = "query"
              /\ last.reads[1].ok => Len(last.reads) = 1
              /\ Len(last.reads) >= 2 => last.reads[2].kind = "probe"
              /\ Len(last.reads) = 3 =>
                    /\ last.reads[2].ok
                    /\ last.reads[3].kind = "query"
                    /\ last.reads[3].custom_schema
                    /\ last.reads[3].text = last.reads[1].text
              /\ Len(last.reads) >= 2 /\ ~last.reads[Len(last.reads)].ok =>
                    /\ ReadingCallFailed
                    /\ last.writes = <<>>

\* a query whose first attempt failed, whose probe succeeded and whose
\* second attempt failed
C18_Witness ==
    /\ IsReadingCall
    /\ Len(last.reads) = 3
    /\ ~last.reads[3].ok
    /\ ReadingCallFailed

\* C19: every source connection that a call opened by calling the factory
\* itself (schema probe, execute_raw_query, test_connections,
\* connections.test_connection) is closed when the call has returned or
\* raised.
C19_SourceConnectionsClosed ==
    last.op # "idle" =>
        \A i \in 1..Len(last.conns) : last.conns[i].closed

(***************************************************************************)
(* Statistics of the engine (Spec).                                        *)
(***************************************************************************)
\* the DataTransfer the tier drives, once there is one
CurrentTransfer == IF tier = "low" THEN engine ELSE manager[1]

\* transfer_table has just run on the tier's DataTransfer
RanTransferTable ==
    \/ last.op = "transfer_table"
    \/ last.op = "execute_transfer" /\ manager # <<>>

\* C21: after a transfer_table call on an engine, the statistics readable
\* from the engine are those of that call: whatever the call's outcome, they
\* do not carry the start time of an earlier transfer.
C21_StatsOfMostRecentTransfer ==
    RanTransferTable =>
        LET Recent(stats) == stats # <<>> => stats.start_time = last.start_time
        IN  Recent(GetRawStatistics(CurrentTransfer))

(***************************************************************************)
(* The override merge (SpecFacade).                                        *)
(***************************************************************************)
\* the merge has just run with no override but the config_overrides map
MergedOverridesOnly ==
    /\ call.op = "_get_config_with_overrides"
    /\ call.args = [NoOverrides EXCEPT !.config_overrides = call.args.config_overrides]

SubRecords == <<"snowflake", "source", "transfer">>

\* the sub-record an override key goes to: the first that has a field of
\* that name, 0 when none has
FirstWith(cfg, key) ==
    LET having == {i \in 1..Len(SubRecords) : key \in DOMAIN cfg[SubRecords[i]]}
    IN  IF having = {} THEN 0 ELSE CHOOSE i \in having : \A j \in having : i <= j

TransferFields == {"mode", "destination_table", "source_table"}

\* C23: a transfer field given to transfer() in config_overrides has the
\* overriding value in the configuration the engine is run with.
C23_TransferOverrideKept ==
    IsTransferCall /\ RanTransferData =>
        \A f \in TransferFields \cap DOMAIN call.args.config_overrides :
            call.out.cfg.transfer[f] = call.args.config_overrides[f]

(***************************************************************************)
(* The row limit of the facade (SpecFacade).                               *)
(***************************************************************************)
\* q with a TOP n row cap after its leading SELECT keyword, in any letter
\* case and whatever follows the keyword
WithRowCap(q, n) ==
    LET At(i) == SubSeq(q, 1, i + 5) \o " TOP " \o IntToStr(n) \o SubSeq(q, i + 6, Len(q))
    IN  At(StrFind(StrUpper(q), "SELECT"))

\* the destination of the same call without a row limit
UnlimitedDestination ==
    IF call.destination \in {None, ""} THEN DeriveDestination(call.source)
    ELSE call.destination

\* a call of transfer or transfer_sample with a row limit went through
\* transfer_data
RanLimitedTransfer ==
    /\ IsTransferCall
    /\ RanTransferData
    /\ call.limit # 0

\* C24: with a limit n the query handed to the engine is, for a query input,
\* the input with TOP n inserted after its leading SELECT keyword and
\* nothing else changed, and for a table input the capped query
\* (SELECT TOP n * FROM table) AS destination; in both cases the
\* destination is that of the same call without a limit.
C24_LimitInsertsRowCap ==
    /\ RanLimitedTransfer /\ IsQuery(call.source) =>
          /\ call.out.query = WithRowCap(call.source, call.limit)
          /\ call.out.cfg.transfer.destination_table = UnlimitedDestination
    /\ RanLimitedTransfer /\ ~IsQuery(call.source) /\ UnlimitedDestination # "" =>
          /\ call.out.query = "(SELECT TOP " \o IntToStr(call.limit) \o " * FROM " \o call.source \o ") AS " \o UnlimitedDestination
          /\ call.out.cfg.transfer.destination_table = UnlimitedDestination

(***************************************************************************)
(* Destinations of the mid tier (Spec).                                    *)
(***************************************************************************)
\* C25: a query transfer of ConnectionManager.execute_transfer, which takes
\* no destination, writes to the destination derived from the trailing
\* alias of its query (or the sentinel).
C25_QueryWritesToAlias ==
    last.op = "execute_transfer" /\ IsQuery(last.query) =>
        \A i \in DOMAIN last.writes :
            last.writes[i].table = AliasDestination(last.query)

(***************************************************************************)
(* Sessions of the ConnectionManager (Spec).                               *)
(***************************************************************************)
\* C26: when close() has returned, every warehouse session the manager
\* opened, in connect or in test_connections, is closed.
C26_CloseClosesEverySession ==
    last.op = "close" => \A sid \in DOMAIN sess : sess[sid] = "closed"

(***************************************************************************)
(* Query or table (Spec).                                                  *)
(***************************************************************************)
\* C27: create_snowpark_dataframe reads its input as a query exactly when
\* transfer() and execute_transfer would: when the trimmed text starts
\* with '('.
C27_SameDispatch ==
    last.op = "create_snowpark_dataframe" /\ last.reads # <<>> =>
        (last.reads[1].kind = "query" <=> IsQuery(last.query))

(***************************************************************************)
(* The default destination (SpecLibrary).                                  *)
(***************************************************************************)
\* neither the file nor the environment of the load names a destination
DestinationUnset ==
    /\ Getenv(tcall.env, "DESTINATION_TABLE") = ""
    /\ "transfer" \in DOMAIN tcall.file => "destination_table" \notin DOMAIN tcall.file.transfer

\* C28: a TransferConfig constructed without a destination has as its
\* destination the source table name with the schema prefix stripped,
\* upper-cased.
C28_DefaultDestination ==
    tcall.op = "load_config" /\ tcall.out.ok /\ DestinationUnset =>
        tcall.out.config.transfer.destination_table
            = StrUpper(AfterLastDot(tcall.out.config.transfer.source_table))

(***************************************************************************)
(* ConnectionTransform.encode (SpecLibrary).                               *)
(***************************************************************************)
\* a ConnectionTransform stage has just encoded the map tcall.x
EncodedMap ==
    /\ tcall.op = "encode;decode"
    /\ pipeline[tcall.stage].cls = "ConnectionTransform"
    /\ tcall.x.t = "dict"

TunedKeys == {"fetch_size", "max_workers", "timeout"}

ProductionDefaults == [fetch_size |-> 10000, max_workers |-> 4, timeout |-> 300]

\* C29: ConnectionTransform.encode of a map gives, under development,
\* fetch_size = min(the input's fetch_size or 1000 when absent, 100),
\* max_workers = 1 and timeout = 60; under production each of fetch_size,
\* max_workers, timeout keeps its input value when present and is 10000, 4,
\* 300 when absent; under another environment the input; the other keys
\* are kept in every case and the caller's map is as it was.
C29_EnvironmentTuning ==
    EncodedMap =>
        LET d == tcall.x.d
            target_env == pipeline[tcall.stage].target_env
            Tuned(r) ==
                /\ DOMAIN r = DOMAIN d \cup TunedKeys
                /\ \A k \in DOMAIN d \ TunedKeys : r[k] = d[k]
                /\ target_env = "development" =>
                      /\ r.fetch_size = (IF "fetch_size" \in DOMAIN d /\ d.fetch_size < 100 THEN d.fetch_size ELSE 100)
                      /\ r.fetch_size <= 100
                      /\ r.max_workers = 1
                      /\ r.timeout = 60
                /\ target_env = "production" =>
                      \A k \in TunedKeys :
                          r[k] = IF k \in DOMAIN d THEN d[k] ELSE ProductionDefaults[k]
        IN  /\ tcall.encoded.t = "dict"
            /\ tcall.arg = tcall.x
            /\ IF target_env \in {"development", "production"}
               THEN Tuned(tcall.encoded.d)
               ELSE tcall.encoded = tcall.x

\* a production transform encoded a map that sets the three values and
\* another key
C29_Witness ==
    /\ EncodedMap
    /\ pipeline[tcall.stage].target_env = "production"
    /\ DOMAIN tcall.x.d = TunedKeys \cup {"host"}
    /\ tcall.encoded.d.max_workers = 8

(***************************************************************************)
(* Schema inference (SpecLibrary).                                         *)
(***************************************************************************)
\* the class of the field the claim gives for a type code
ExpectedType(code) ==
    IF code \in {4, -5, 5, -6} THEN "IntegerType"
    ELSE IF code \in {6, 8} THEN "DoubleType"
    ELSE IF code \in {2, 3} THEN "DecimalType"
    ELSE IF code = 91 THEN "DateType"
    ELSE IF code = 93 THEN "TimestampType"
    ELSE IF code = 16 THEN "BooleanType"
    ELSE "StringType"

\* C30: the schema built from a description has one field per column, in
\* column order and with the column's name, and the type of each field is
\* the one the table gives for the column's type code: string for 1, 12,
\* -1, -9 and for every code not in the table, integer for 4, -5, 5, -6,
\* double for 6, 8, decimal(18,2) for 2, 3, date for 91, timestamp for 93,
\* boolean for 16.
C30_SchemaInference ==
    tcall.op = "_get_query_schema" =>
        /\ Len(tcall.out) = Len(tcall.columns)
        /\ \A i \in 1..Len(tcall.columns) :
              /\ tcall.out[i].name = tcall.columns[i][1]
              /\ tcall.out[i].datatype.type = ExpectedType(tcall.columns[i][2])
              /\ tcall.out[i].datatype.type = "DecimalType" =>
                    /\ tcall.out[i].datatype.precision = 18
                    /\ tcall.out[i].datatype.scale = 2

\* a description of two columns of the same name, the second with a code
\* the table does not have
C30_Witness ==
    /\ tcall.op = "_get_query_schema"
    /\ Len(tcall.columns) = 2
    /\ tcall.columns[2][2] \notin DOMAIN TypeMapping
    /\ tcall.out[1].datatype = IntegerType
    /\ tcall.out[2] = StructField("ID", StringType)

=============================================================================
